---- MODULE Spec2Model ----
(***************************************************************************)
(* Model of the activity-classification and free-agent-search subsystem    *)
(* of the ESPN fantasy-baseball MCP server (espn-api-util/baseball_mcp).   *)
(*                                                                         *)
(* Conventions.  Python None is the empty sequence NONE and a present      *)
(* optional value x is <<x>>.  Player names and search terms are           *)
(* sequences of one-character strings, so that lower() and the `in`        *)
(* substring test are computed and not assumed.  A Python dict is a        *)
(* record with exactly the keys the code gives it.                         *)
(***************************************************************************)
EXTENDS Integers, Sequences, FiniteSets, TLC

VARIABLES
    \* ---- get_paginated_free_agents (players.py 53-87) ----
    batch_size,      \* argument
    max_players,     \* argument
    offset,          \* local
    total_players,   \* local
    batch_len,       \* len(batch) of the page being iterated
    batch_idx,       \* how many items of that page the for loop has taken
    gpc,             \* position of the generator
    requests,        \* history: number of league.free_agents calls issued
    yielded,         \* history: number of items handed to the consumer
    short_seen,      \* history: an empty or short page has been returned
    fetched,         \* history: number of items the remote source returned
    failed,          \* history: a page request raised
    \* ---- activity_to_dict (utils.py 275-362) ----
    activity,        \* the vendor activity handed to activity_to_dict
    record,          \* NONE before the call, then <<what the call produced>>
    \* ---- the transaction views (transactions.py) ----
    league_error,    \* NONE, or <<message>> of the exception get_league raises
    feed,            \* the activities the vendor holds for the league
    no_size_mode,    \* what league.recent_activity() does
    sized_mode,      \* what league.recent_activity(size=...) does
    call,            \* NONE, or <<the last tool call and its arguments>>
    result,          \* what that call returned
    \* ---- search_players (players.py 384-468) ----
    search_term,        \* argument
    include_rostered,   \* argument
    include_free_agents,\* argument
    rosters,            \* the players of league.teams[*].roster, in scan order
    free_agents,        \* what get_paginated_free_agents yields, in order
    matching_players,   \* the list before deduplication (kept for the claims)
    found,              \* NONE, or <<the list search_players returned>>
    \* ---- search_players driving the generator (players.py 430-451) ----
    spc,                \* position of search_players
    pool_kind,          \* which players the remote free-agent pool holds
    \* ---- fuzzy_match_name (players.py 12-51) ----
    match_args,         \* NONE, or <<the arguments and the two library scores>>
    match_result,       \* NONE, or <<(is_match, score) as returned>>
    \* ---- the remote fetches of get_recent_activity and get_free_agents ----
    fetch_call,         \* NONE, or <<the tool call and its arguments>>
    fpc,                \* position of that call
    remote_log,         \* history: the remote calls issued, with their outcomes
    activities_src,     \* which remote answer the call goes on with
    \* ---- AuthService (auth.py) and BaseballLeagueService (utils.py) ----
    credentials,        \* auth_service.credentials: session id -> NONE or <<pair>>
    last_auth,          \* history: the last of authenticate/logout per session
    leagues,            \* league_service.leagues: cache key -> NONE or <<league>>
    calls               \* the data-fetching calls under way, with their position

pagVars == <<batch_size, max_players, offset, total_players, batch_len,
             batch_idx, gpc, requests, yielded, short_seen, fetched, failed>>

clsVars == <<activity, record>>

feedVars == <<league_error, feed, no_size_mode, sized_mode, call, result>>

searchVars == <<search_term, include_rostered, include_free_agents, rosters,
                free_agents, matching_players, found>>

scanVars == <<spc, pool_kind>>

matchVars == <<match_args, match_result>>

fetchVars == <<fetch_call, fpc, remote_log, activities_src>>

leagueVars == <<credentials, last_auth, leagues, calls>>

vars == <<pagVars, clsVars, feedVars, searchVars, scanVars, matchVars,
          fetchVars, leagueVars>>

\* What each component's actions leave alone.
notPag ==
    <<clsVars, feedVars, searchVars, scanVars, matchVars, fetchVars, leagueVars>>
notCls ==
    <<pagVars, feedVars, searchVars, scanVars, matchVars, fetchVars, leagueVars>>
notFeed ==
    <<pagVars, clsVars, searchVars, scanVars, matchVars, fetchVars, leagueVars>>
notSearch ==
    <<pagVars, clsVars, feedVars, scanVars, matchVars, fetchVars, leagueVars>>
notScan ==
    <<clsVars, feedVars, matchVars, fetchVars, leagueVars>>
notMatch ==
    <<pagVars, clsVars, feedVars, searchVars, scanVars, fetchVars, leagueVars>>
notFetch ==
    <<pagVars, clsVars, feedVars, searchVars, scanVars, matchVars, leagueVars>>

notLeague ==
    <<pagVars, clsVars, feedVars, searchVars, scanVars, matchVars, fetchVars>>

NONE == <<>>
Some(x) == <<x>>

(***************************************************************************)
(* Bounds of the model.                                                    *)
(***************************************************************************)
MaxBatchSize == 2
MaxMaxPlayers == 3
MaxPage == 3

(***************************************************************************)
(* get_paginated_free_agents: the generator, one action per statement      *)
(* group between two points where control can leave it.                    *)
(***************************************************************************)

\* players.py 67: the while condition.
LoopGuard(total, max) == total < max

\* players.py 74: the cap test inside the for loop.
CapReached_mut(total, max) == FALSE
CapReached(total, max) == total >= max

\* players.py 70: `if not batch`.
EmptyBatch_never(n) == FALSE
EmptyBatch(n) == n = 0

\* players.py 82: `if len(batch) < batch_size`.
ShortBatch_mut(n, size) == FALSE
ShortBatch(n, size) == n < size

\* The generator before its first step.
PagIdle ==
    /\ batch_size = 0
    /\ max_players = 0
    /\ offset = 0
    /\ total_players = 0
    /\ batch_len = 0
    /\ batch_idx = 0
    /\ gpc = "head"
    /\ requests = 0
    /\ yielded = 0
    /\ short_seen = FALSE
    /\ fetched = 0
    /\ failed = FALSE

\* No activity is being classified.
ClsIdle ==
    /\ activity = NONE
    /\ record = NONE

\* No tool call has been made and the vendor holds nothing.
FeedIdle ==
    /\ league_error = NONE
    /\ feed = <<>>
    /\ no_size_mode = "list"
    /\ sized_mode = "list"
    /\ call = NONE
    /\ result = <<>>

\* No search has been made.
SearchIdle ==
    /\ search_term = <<>>
    /\ include_rostered = TRUE
    /\ include_free_agents = TRUE
    /\ rosters = <<>>
    /\ free_agents = <<>>
    /\ matching_players = <<>>
    /\ found = NONE

\* search_players is not running.
ScanIdle ==
    /\ spc = "idle"
    /\ pool_kind = "none"

\* fuzzy_match_name has not been called on its own.
MatchIdle ==
    /\ match_args = NONE
    /\ match_result = NONE

\* The sessions, the leagues and the calls of the model.
Sessions == {"default_session", "other_session"}
LeagueIds == {1}
CallIds == {1, 2}

\* utils.py 102: f"baseball_{league_id}_{year}_{auth_hash}".  The two
\* numbers hold no underscore, so the string determines the three parts.
cache_key(league_id, year, auth_hash) == <<"baseball", league_id, year, auth_hash>>

\* What md5(combined).hexdigest()[:8] is for the strings of the model.
md5_prefix(combined) ==
    CASE combined = <<"x", "_", "x">> -> "7de161c4"
      [] combined = <<"x", "_", "_", "x">> -> "944df41b"

\* `not espn_s2`: None or the empty string.
NoCookie(cookie) == cookie = NONE \/ cookie[1] = <<>>

\* utils.py 76-82.
generate_auth_hash(espn_s2, swid) ==
    IF NoCookie(espn_s2) \/ NoCookie(swid)
      THEN "no_auth"
      ELSE md5_prefix(espn_s2[1] \o <<"_">> \o swid[1])

\* The result of the auto-detection (utils.py 89-97) when it is used.
DetectedYears == {2024, 2025}
AuthHashes == {"no_auth", "7de161c4", "944df41b"}
CacheKeys ==
    {cache_key(l, y, h) : l \in LeagueIds, y \in DetectedYears, h \in AuthHashes}

NoCall ==
    [pc |-> "idle", session_id |-> "", after_logout |-> FALSE, league_id |-> 0,
     year |-> 0, espn_s2 |-> NONE, swid |-> NONE, cache_key |-> NONE,
     league |-> NONE]

\* The server after construction: nothing stored, nothing cached, no call.
LeagueIdle ==
    /\ credentials = [s \in Sessions |-> NONE]
    /\ last_auth = [s \in Sessions |-> "none"]
    /\ leagues = [k \in CacheKeys |-> NONE]
    /\ calls = [c \in CallIds |-> NoCall]

\* Neither get_recent_activity nor get_free_agents is being followed.
FetchIdle ==
    /\ fetch_call = NONE
    /\ fpc = "idle"
    /\ remote_log = <<>>
    /\ activities_src = "none"

PagInit ==
    /\ batch_size \in 0..MaxBatchSize
    /\ max_players \in 0..MaxMaxPlayers
    /\ offset = 0
    /\ total_players = 0
    /\ batch_len = 0
    /\ batch_idx = 0
    /\ gpc = "head"
    /\ requests = 0
    /\ yielded = 0
    /\ short_seen = FALSE
    /\ fetched = 0
    /\ failed = FALSE

\* The while condition fails: the generator ends.
LoopExit ==
    /\ UNCHANGED notPag
    /\ gpc = "head"
    /\ ~LoopGuard(total_players, max_players)
    /\ gpc' = "done"
    /\ UNCHANGED <<batch_size, max_players, offset, total_players, batch_len,
                   batch_idx, requests, yielded, short_seen, fetched, failed>>

\* The lengths of the pages the remote side returns: any length up to
\* MaxPage, a full page, and a page one item longer than asked for.
PageLengths(size) == (0..MaxPage) \cup {size, size + 1}

\* players.py 85-87: the handler logs and breaks; the generator ends as it
\* does on exhaustion ("raised" would be the exception reaching the consumer).
PageErrorEnds_raises == "raised"
PageErrorEnds == "done"

\* league.free_agents(size=batch_size, offset=offset) returns a page of n
\* items; the remote side is free to return any length.
PageRequest ==
    /\ UNCHANGED notPag
    /\ gpc = "head"
    /\ LoopGuard(total_players, max_players)
    /\ \E n \in PageLengths(batch_size) :
          /\ requests' = requests + 1
          /\ fetched' = fetched + n
          /\ short_seen' = (short_seen \/ n = 0 \/ n < batch_size)
          /\ batch_len' = n
          /\ batch_idx' = 0
          /\ gpc' = IF EmptyBatch(n) THEN "done" ELSE "iter"
    /\ UNCHANGED <<batch_size, max_players, offset, total_players, yielded,
                   failed>>

\* league.free_agents raises: logged, break.
PageRequestFails ==
    /\ UNCHANGED notPag
    /\ gpc = "head"
    /\ LoopGuard(total_players, max_players)
    /\ requests' = requests + 1
    /\ failed' = TRUE
    /\ gpc' = PageErrorEnds
    /\ UNCHANGED <<batch_size, max_players, offset, total_players, batch_len,
                   batch_idx, yielded, short_seen, fetched>>

\* One iteration of `for player in batch`, up to the yield; or the code
\* after the loop when the page is exhausted.
NextItem ==
    /\ UNCHANGED notPag
    /\ gpc = "iter"
    /\ IF batch_idx < batch_len
         THEN IF CapReached(total_players, max_players)
                THEN /\ gpc' = "done"
                     /\ UNCHANGED <<batch_idx, yielded, offset>>
                ELSE /\ gpc' = "yielded"
                     /\ batch_idx' = batch_idx + 1
                     /\ yielded' = yielded + 1
                     /\ UNCHANGED offset
         ELSE /\ offset' = offset + batch_size
              /\ gpc' = IF ShortBatch(batch_len, batch_size) THEN "done" ELSE "head"
              /\ UNCHANGED <<batch_idx, yielded>>
    /\ UNCHANGED <<batch_size, max_players, total_players, batch_len, requests,
                   short_seen, fetched, failed>>

\* The consumer pulls again: the generator resumes after the yield.
Resume ==
    /\ UNCHANGED notPag
    /\ gpc = "yielded"
    /\ total_players' = total_players + 1
    /\ gpc' = "iter"
    /\ UNCHANGED <<batch_size, max_players, offset, batch_len, batch_idx,
                   requests, yielded, short_seen, fetched, failed>>

\* The consumer stops pulling (break in its for loop): the generator is
\* never resumed.
ConsumerStops ==
    /\ UNCHANGED notPag
    /\ gpc = "yielded"
    /\ gpc' = "done"
    /\ UNCHANGED <<batch_size, max_players, offset, total_players, batch_len,
                   batch_idx, requests, yielded, short_seen, fetched, failed>>

PagNext ==
    \/ LoopExit
    \/ PageRequest
    \/ PageRequestFails
    \/ NextItem
    \/ Resume
    \/ ConsumerStops

InitPag == PagInit /\ ClsIdle /\ FeedIdle /\ SearchIdle /\ ScanIdle /\ MatchIdle /\ FetchIdle /\ LeagueIdle

SpecPag == InitPag /\ [][PagNext]_vars

\* The generator's own steps always go on (it is running Python code), and
\* a consumer that keeps pulling resumes it after every yield.
SpecPagLive ==
    /\ SpecPag
    /\ WF_vars(LoopExit \/ PageRequest \/ PageRequestFails \/ NextItem)
    /\ WF_vars(Resume)

(***************************************************************************)
(* C1: the paginated fetcher never yields more than max_players items:     *)
(* both the local counter total_players and the number of items handed to  *)
(* the consumer stay <= max_players, whatever page lengths the remote      *)
(* source returns.                                                         *)
(***************************************************************************)
C1_AtMostMaxTotal ==
    /\ total_players <= max_players
    /\ yielded <= max_players

\* A page longer than batch_size and longer than what the cap still allows
\* was cut by the cap.
C1_Witness ==
    /\ gpc = "done"
    /\ max_players > 0
    /\ yielded = max_players
    /\ batch_len > batch_size
    /\ batch_idx < batch_len

(***************************************************************************)
(* C2: once an empty or short page has been returned, no further page      *)
(* request is issued: from then on the request counter never changes.      *)
(***************************************************************************)
C2_NoRequestAfterShortPage == [][short_seen => requests' = requests]_vars

\* A full page, then a short non-empty one that was consumed to its end.
C2_Witness ==
    /\ gpc = "done"
    /\ short_seen
    /\ requests >= 2
    /\ batch_len > 0
    /\ batch_idx = batch_len
    /\ total_players < max_players

(***************************************************************************)
(* activity_to_dict: the activity classifier.                              *)
(*                                                                         *)
(* A vendor activity is [date, actions_kind, actions].  date is the kind   *)
(* of value its `date` attribute holds; actions_kind is "list" when        *)
(* `actions` is a list (possibly empty) and "unsized" when it is a truthy  *)
(* value without len().  An action tuple is a TLA+ tuple: the well-formed  *)
(* ones have three components <<team_ref, action_string, player_name>>.    *)
(***************************************************************************)

\* metadata.py 130-147.
ESPN_ACTION_TYPE_MAP ==
    [s \in {"FA ADDED", "WAIVER ADDED", "DROPPED", "TRADED", "WAIVER", "DRAFT",
            "KEEPER", "MOVED TO IL", "MOVED FROM IL", "LINEUP SET",
            "SETTINGS CHANGED", "TEAM SETTINGS", "CLAIMED", "BID"} |->
        CASE s = "FA ADDED" -> "ADD"
          [] s = "WAIVER ADDED" -> "ADD"
          [] s = "DROPPED" -> "DROP"
          [] s = "TRADED" -> "TRADE_ACCEPTED"
          [] s = "WAIVER" -> "WAIVER_MOVED"
          [] s = "DRAFT" -> "DRAFT_PICK"
          [] s = "KEEPER" -> "KEEPER_SELECT"
          [] s = "MOVED TO IL" -> "INJURY_LIST"
          [] s = "MOVED FROM IL" -> "INJURY_LIST"
          [] s = "LINEUP SET" -> "LINEUP_SET"
          [] s = "SETTINGS CHANGED" -> "LEAGUE_EDIT"
          [] s = "TEAM SETTINGS" -> "TEAM_EDIT"
          [] s = "CLAIMED" -> "WAIVER_MOVED"
          [] s = "BID" -> "WAIVER_BUDGET_USED"]

\* ESPN_ACTION_TYPE_MAP.get(action_type): NONE when the string is not a key.
MappedType_unknownAsAdd(action_type) ==
    IF action_type \in DOMAIN ESPN_ACTION_TYPE_MAP
      THEN Some(ESPN_ACTION_TYPE_MAP[action_type])
      ELSE Some("ADD")
MappedType(action_type) ==
    IF action_type \in DOMAIN ESPN_ACTION_TYPE_MAP
      THEN Some(ESPN_ACTION_TYPE_MAP[action_type])
      ELSE NONE

\* utils.py 323, 325: `"FA" in action_type`, `"WAIVER" in action_type`, on
\* the action strings of the model.
ContainsFA(action_type) == action_type \in {"FA ADDED"}
ContainsWAIVER(action_type) == action_type \in {"WAIVER ADDED", "WAIVER"}

\* utils.py 36-68.  A date is "none", "seconds", "millis" (both in the
\* valid range), "future" (beyond now + 2 years) or "str" (not a number:
\* the comparison at line 51 raises TypeError, which line 66 does not catch).
ConvertRaises(date) == date = "str"
convert_timestamp(date) ==
    CASE date = "none" -> NONE
      [] date = "future" -> Some("INVALID_FUTURE_DATE")
      [] OTHER -> Some("formatted")

\* utils.py 130-158, the fields the model reads.
team_to_dict(team) == [team_id |-> team.team_id, team_name |-> team.team_name]

\* utils.py 283-292.
InitialDict(date) ==
    [type |-> "UNKNOWN_ACTIVITY",
     date |-> convert_timestamp(date),
     raw_timestamp |-> date,
     team |-> NONE,
     added_player |-> NONE,
     dropped_player |-> NONE,
     players_in |-> <<>>,
     players_out |-> <<>>,
     source |-> NONE]   \* NONE: the key is absent (every reader uses .get)

\* utils.py 306-307: the first team found is kept.
SetTeam_last(d, team_obj) ==
    IF team_obj # NONE
      THEN [d EXCEPT !.team = Some(team_to_dict(team_obj[1]))]
      ELSE d
SetTeam(d, team_obj) ==
    IF d.team = NONE /\ team_obj # NONE
      THEN [d EXCEPT !.team = Some(team_to_dict(team_obj[1]))]
      ELSE d

\* utils.py 313-314: the first recognizable type is kept.
SetType_last(d, mapped) == [d EXCEPT !.type = mapped]
SetType(d, mapped) ==
    IF d.type = "UNKNOWN_ACTIVITY" THEN [d EXCEPT !.type = mapped] ELSE d

\* utils.py 319-335: the player fields, by mapped type.
SetPlayers_last(d, mapped, action_type, player_name) ==
    LET player_dict == [name |-> player_name] IN
    CASE mapped = "ADD" ->
           [d EXCEPT !.added_player = Some(player_dict),
                     !.source = IF ContainsFA(action_type)
                                  THEN Some("FREE_AGENT")
                                  ELSE IF ContainsWAIVER(action_type)
                                         THEN Some("WAIVERS")
                                         ELSE @]
      [] mapped = "DROP" -> [d EXCEPT !.dropped_player = Some(player_dict)]
      [] mapped = "TRADE_ACCEPTED" ->
           [d EXCEPT !.players_in = Append(@, player_dict)]
      [] OTHER -> d
SetPlayers(d, mapped, action_type, player_name) ==
    LET player_dict == [name |-> player_name] IN
    CASE mapped = "ADD" ->
           IF d.added_player = NONE
             THEN [d EXCEPT !.added_player = Some(player_dict),
                            !.source = IF ContainsFA(action_type)
                                         THEN Some("FREE_AGENT")
                                         ELSE IF ContainsWAIVER(action_type)
                                                THEN Some("WAIVERS")
                                                ELSE @]
             ELSE d
      [] mapped = "DROP" ->
           IF d.dropped_player = NONE
             THEN [d EXCEPT !.dropped_player = Some(player_dict)]
             ELSE d
      [] mapped = "TRADE_ACCEPTED" ->
           [d EXCEPT !.players_in = Append(@, player_dict)]
      [] OTHER -> d

\* utils.py 299-345: the body of the loop over activity.actions.
ProcessAction(d, action_tuple) ==
    IF Len(action_tuple) = 3
      THEN LET team_obj == action_tuple[1]
               action_type == action_tuple[2]
               player_name == action_tuple[3]
               d1 == SetTeam(d, team_obj)
               mapped_type == MappedType(action_type)
           IN  IF mapped_type # NONE
                 THEN SetPlayers(SetType(d1, mapped_type[1]), mapped_type[1],
                                 action_type, player_name)
                 ELSE d1
      ELSE d

\* utils.py 298: the loop, in the order of the list.
RECURSIVE ProcessActions(_, _)
ProcessActions(d, actions) ==
    IF actions = <<>>
      THEN d
      ELSE ProcessActions(ProcessAction(d, Head(actions)), Tail(actions))

\* utils.py 347-350: the post-pass.
PostPass_skip(d) == d
PostPass_addOnly(d) ==
    IF d.added_player # NONE /\ d.dropped_player # NONE /\ d.type \in {"ADD"}
      THEN [d EXCEPT !.type = "ROSTER_MOVE"]
      ELSE d
PostPass(d) ==
    IF d.added_player # NONE /\ d.dropped_player # NONE /\ d.type \in {"ADD", "DROP"}
      THEN [d EXCEPT !.type = "ROSTER_MOVE"]
      ELSE d

\* utils.py 356-362: the record the outer handler returns.
ErrorRecord(date) ==
    [error |-> <<"Error serializing activity">>,
     type |-> "ERROR_PROCESSING",
     date |-> convert_timestamp(date),
     raw_timestamp |-> date]

\* What leaves activity_to_dict when an exception escapes its own handler.
Raised == [raised |-> "TypeError"]

\* utils.py 275-362.  A date that is not a number makes line 285 raise and
\* then line 360, inside the handler, raise again: the exception leaves the
\* function.  An unsized `actions` makes line 296 raise: the handler returns
\* the error record.
activity_to_dict(a) ==
    IF ConvertRaises(a.date)
      THEN Raised
      ELSE IF a.actions_kind = "unsized"
             THEN ErrorRecord(a.date)
             ELSE PostPass(ProcessActions(InitialDict(a.date), a.actions))

(***************************************************************************)
(* The vendor activities the classifier is run on.                         *)
(***************************************************************************)
MaxActions == 3

TeamA == [team_id |-> 1, team_name |-> "TeamA"]
TeamB == [team_id |-> 2, team_name |-> "TeamB"]
JaneDoe == <<"J", "d">>
JohnRoe == <<"j", "r">>

ActionStrings == DOMAIN ESPN_ACTION_TYPE_MAP \cup {"FOO BAR"}

\* Every action string once on TeamA, the add, drop and trade strings also
\* with another team or none, and one malformed (two-component) tuple.
ActionTuples ==
    {<<Some(TeamA), s, JaneDoe>> : s \in ActionStrings}
    \cup {<<NONE, "FA ADDED", JohnRoe>>, <<Some(TeamB), "WAIVER ADDED", JohnRoe>>,
          <<Some(TeamB), "DROPPED", JohnRoe>>, <<NONE, "TRADED", JohnRoe>>,
          <<Some(TeamA), "FOO BAR">>}

RECURSIVE SeqsUpTo(_, _)
SeqsUpTo(S, n) ==
    IF n = 0
      THEN {<<>>}
      ELSE LET shorter == SeqsUpTo(S, n - 1)
           IN  shorter \cup {Append(q, x) : q \in shorter, x \in S}

Activities ==
    {[date |-> "millis", actions_kind |-> "list", actions |-> q] :
        q \in SeqsUpTo(ActionTuples, MaxActions)}
    \cup {[date |-> dt, actions_kind |-> k, actions |-> <<>>] :
            dt \in {"none", "seconds", "millis", "future", "str"},
            k \in {"list", "unsized"}}

ClsInit ==
    /\ activity \in {Some(a) : a \in Activities}
    /\ record = NONE

\* activity_to_dict(activity) is called.
Classify ==
    /\ UNCHANGED notCls
    /\ record = NONE
    /\ record' = Some(activity_to_dict(activity[1]))
    /\ UNCHANGED activity

ClsNext == Classify

InitCls == PagIdle /\ ClsInit /\ FeedIdle /\ SearchIdle /\ ScanIdle /\ MatchIdle /\ FetchIdle /\ LeagueIdle

SpecCls == InitCls /\ [][ClsNext]_vars

\* The record a call returned (not an exception).
Returned == record # NONE /\ record[1] # Raised
IsActivityRecord == Returned /\ "added_player" \in DOMAIN record[1]
BothPlayersSet ==
    /\ IsActivityRecord
    /\ record[1].added_player # NONE
    /\ record[1].dropped_player # NONE

\* The kind the first tuple, in original order, that maps gives (NONE when
\* no tuple maps).
RECURSIVE FirstMapped(_)
FirstMapped(actions) ==
    IF actions = <<>>
      THEN NONE
      ELSE IF Len(Head(actions)) = 3 /\ MappedType(Head(actions)[2]) # NONE
             THEN MappedType(Head(actions)[2])
             ELSE FirstMapped(Tail(actions))

(***************************************************************************)
(* C3 (as claimed): whenever the record returned by activity_to_dict has   *)
(* both added_player and dropped_player populated, its kind is             *)
(* ROSTER_MOVE.                                                            *)
(***************************************************************************)
C3_BothSetIsRosterMove ==
    BothPlayersSet => record[1].type = "ROSTER_MOVE"

(***************************************************************************)
(* C3 (amended): whenever the record has both added_player and             *)
(* dropped_player populated, its kind is ROSTER_MOVE if the first tuple    *)
(* that maps is an ADD or a DROP, and otherwise it is the kind of that     *)
(* first mapped tuple (for example TRADE_ACCEPTED), which the post-pass    *)
(* leaves alone.                                                           *)
(***************************************************************************)
C3_BothSetIsRosterMoveOrFirstKind ==
    BothPlayersSet =>
        LET first == FirstMapped(activity[1].actions)[1] IN
        IF first \in {"ADD", "DROP"}
          THEN record[1].type = "ROSTER_MOVE"
          ELSE record[1].type = first

\* An add and a drop behind a trade: both players set, kind TRADE_ACCEPTED.
C3_Witness ==
    /\ BothPlayersSet
    /\ record[1].type = "TRADE_ACCEPTED"
    /\ Len(record[1].players_in) = 1

(***************************************************************************)
(* C4: no record has both added_player and dropped_player populated while  *)
(* its kind is ADD or DROP; the tuples (T, "FA ADDED", p), (T, "DROPPED",  *)
(* q) on one activity, in either order, give kind ROSTER_MOVE with         *)
(* added_player p and dropped_player q.                                    *)
(***************************************************************************)
C4_AddDropPair(a) ==
    /\ a.actions_kind = "list"
    /\ Len(a.actions) = 2
    /\ \E i \in 1..2 :
          /\ Len(a.actions[i]) = 3 /\ a.actions[i][2] = "FA ADDED"
          /\ Len(a.actions[3 - i]) = 3 /\ a.actions[3 - i][2] = "DROPPED"

C4_NeverAddOrDropWithBoth ==
    /\ BothPlayersSet => record[1].type \notin {"ADD", "DROP"}
    /\ (Returned /\ C4_AddDropPair(activity[1])) =>
          \E i \in 1..2 :
             /\ activity[1].actions[i][2] = "FA ADDED"
             /\ record[1].type = "ROSTER_MOVE"
             /\ record[1].added_player = Some([name |-> activity[1].actions[i][3]])
             /\ record[1].dropped_player = Some([name |-> activity[1].actions[3 - i][3]])

\* The drop came first, then the add: the tuple pass left kind DROP.
C4_Witness ==
    /\ Returned
    /\ C4_AddDropPair(activity[1])
    /\ activity[1].actions[1][2] = "DROPPED"
    /\ record[1].type = "ROSTER_MOVE"
    /\ record[1].added_player = Some([name |-> JaneDoe])
    /\ record[1].dropped_player = Some([name |-> JohnRoe])

(***************************************************************************)
(* Strings: lower() and the substring test `a in b`.                       *)
(***************************************************************************)
LowerChar(c) ==
    CASE c = "J" -> "j"
      [] c = "A" -> "a"
      [] c = "B" -> "b"
      [] OTHER -> c

Lower(str) == [i \in 1..Len(str) |-> LowerChar(str[i])]

IsSubstring(a, b) ==
    \E i \in 0..(Len(b) - Len(a)) : SubSeq(b, i + 1, i + Len(a)) = a

(***************************************************************************)
(* get_recent_activity and the views over it.                              *)
(***************************************************************************)

\* utils.py 24-34.  The message is kept as <<context, message>>.
handle_error(error_msg, context) ==
    IF error_msg \in {"401", "Private"}
      THEN [error |-> <<"private league: authenticate first">>]
      ELSE [error |-> <<"Error in", context, error_msg>>]

\* The vendor's answer to one recent_activity call.
Response(mode) ==
    CASE mode = "raise" -> [raises |-> TRUE, items |-> <<>>]
      [] mode = "empty" -> [raises |-> FALSE, items |-> <<>>]
      [] OTHER -> [raises |-> FALSE, items |-> feed]

\* transactions.py 57.
NO_SIZE_ENOUGH == 50

\* transactions.py 39-90: the list `activities` after the fetches.
FetchActivities ==
    LET first == Response(no_size_mode)
        second == Response(sized_mode)
    IN  IF first.raises
          THEN IF second.raises THEN <<>> ELSE second.items
          ELSE IF first.items # <<>>
                 THEN IF Len(first.items) > NO_SIZE_ENOUGH
                        THEN first.items
                        ELSE IF second.raises
                               THEN first.items
                               ELSE IF second.items # <<>>
                                      THEN second.items
                                      ELSE first.items
                 ELSE IF second.raises THEN <<>> ELSE second.items

\* transactions.py 114-119.
Placeholder ==
    [error |-> <<"Failed to process activity">>,
     type |-> "PROCESSING_ERROR",
     date |-> Some("UNKNOWN"),
     raw_activity_type |-> "UNKNOWN"]

\* transactions.py 106: the activity_type filter.
FilteredOut(activity_type, activity_dict) ==
    activity_type # NONE /\ activity_dict.type # activity_type[1]

\* transactions.py 96-120: the processing loop.
RECURSIVE ProcessFeed(_, _)
ProcessFeed(activities, activity_type) ==
    IF activities = <<>>
      THEN <<>>
      ELSE LET activity_dict == activity_to_dict(Head(activities))
               rest == ProcessFeed(Tail(activities), activity_type)
           IN  IF activity_dict = Raised
                 THEN <<Placeholder>> \o rest
                 ELSE IF FilteredOut(activity_type, activity_dict)
                        THEN rest
                        ELSE <<activity_dict>> \o rest

Min(a, b) == IF a < b THEN a ELSE b

\* list[start:stop] for 0 <= start, 0 <= stop.
Slice(list, start, stop) == SubSeq(list, start + 1, Min(stop, Len(list)))

\* transactions.py 10-134.
get_recent_activity(limit, activity_type, off) ==
    IF league_error # NONE
      THEN <<handle_error(league_error[1], "get_recent_activity")>>
      ELSE Slice(ProcessFeed(FetchActivities, activity_type), off, off + limit)

\* activity.get("type") and activity.get("source").
GetType(activity_dict) ==
    IF "type" \in DOMAIN activity_dict THEN Some(activity_dict.type) ELSE NONE
GetSource(activity_dict) ==
    IF "source" \in DOMAIN activity_dict THEN activity_dict.source ELSE NONE

\* `activity.get("type") in types`.
TypeIn(activity_dict, types) ==
    GetType(activity_dict) # NONE /\ GetType(activity_dict)[1] \in types

Range(list) == {list[i] : i \in 1..Len(list)}

\* The entries of list that are in kept, in the order of list: the loops
\* `for activity in all_activities: if ...: out.append(activity)`.
RECURSIVE Select(_, _)
Select(list, kept) ==
    IF list = <<>>
      THEN <<>>
      ELSE IF Head(list) \in kept
             THEN <<Head(list)>> \o Select(Tail(list), kept)
             ELSE Select(Tail(list), kept)

\* transactions.py 155, 188, 219, 353, 384, 415: the views' kind sets.
waiver_types == {"ADD", "WAIVER_MOVED", "WAIVER_BUDGET_USED"}
trade_types == {"TRADE_ACCEPTED", "TRADE_PENDING", "TRADE_DECLINED"}
add_drop_types == {"ADD", "DROP", "ROSTER_MOVE"}
lineup_types == {"LINEUP_SET", "ROSTER_MOVE"}
settings_types == {"LEAGUE_EDIT", "TEAM_EDIT"}
keeper_types == {"KEEPER_SELECT"}

\* transactions.py 161: `"waiver" in activity.get("type", "").lower()`, on
\* the kinds of waiver_types.
TypeSaysWaiver(activity_dict) ==
    GetType(activity_dict)[1] \in {"WAIVER_MOVED", "WAIVER_BUDGET_USED"}

\* transactions.py 159-162.
WaiverKeep(activity_dict) ==
    /\ TypeIn(activity_dict, waiver_types)
    /\ \/ GetSource(activity_dict) \in {Some("WAIVERS"), Some("FA")}
       \/ TypeSaysWaiver(activity_dict)

\* transactions.py 136-167.
get_waiver_activity(limit) ==
    LET all_activities == get_recent_activity(limit * 2, NONE, 0)
    IN  Slice(Select(all_activities, {a \in Range(all_activities) : WaiverKeep(a)}),
              0, limit)

\* transactions.py 169-198, 200-229, 334-363, 365-394, 396-425: the views
\* that filter on the kind alone.
KindView(types, limit) ==
    LET all_activities == get_recent_activity(limit * 2, NONE, 0)
    IN  Slice(Select(all_activities, {a \in Range(all_activities) : TypeIn(a, types)}),
              0, limit)

get_trade_activity(limit) == KindView(trade_types, limit)
get_add_drop_activity(limit) == KindView(add_drop_types, limit)
get_lineup_activity(limit) == KindView(lineup_types, limit)
get_settings_activity(limit) == KindView(settings_types, limit)
get_keeper_activity(limit) == KindView(keeper_types, limit)

\* transactions.py 231-270.  No record carries a trade_partner key, so the
\* elif at 261-265 never adds anything.
get_team_transactions(team_id, limit) ==
    LET all_activities == get_recent_activity(limit * 3, NONE, 0)
        Keep(activity_dict) ==
            /\ "team" \in DOMAIN activity_dict
            /\ activity_dict.team # NONE
            /\ activity_dict.team[1].team_id = team_id
    IN  Slice(Select(all_activities, {a \in Range(all_activities) : Keep(a)}),
              0, limit)

\* transactions.py 288.
HISTORY_LIMIT == 100

\* transactions.py 299-324: is the player involved in the record.
NameIn(player_name, player_dict) ==
    IsSubstring(Lower(player_name), Lower(player_dict.name))

PlayerInvolved(player_name, activity_dict) ==
    IF "added_player" \in DOMAIN activity_dict
         /\ activity_dict.added_player # NONE
         /\ NameIn(player_name, activity_dict.added_player[1])
      THEN TRUE
      ELSE IF "dropped_player" \in DOMAIN activity_dict
                /\ activity_dict.dropped_player # NONE
                /\ NameIn(player_name, activity_dict.dropped_player[1])
             THEN TRUE
             ELSE IF TypeIn(activity_dict, {"TRADE_ACCEPTED", "TRADE_PENDING"})
                    THEN \/ \E i \in 1..Len(activity_dict.players_in) :
                               NameIn(player_name, activity_dict.players_in[i])
                         \/ \E i \in 1..Len(activity_dict.players_out) :
                               NameIn(player_name, activity_dict.players_out[i])
                    ELSE FALSE

\* transactions.py 272-332.
get_player_transaction_history(player_name) ==
    LET all_activities == get_recent_activity(HISTORY_LIMIT, NONE, 0)
    IN  Select(all_activities,
               {a \in Range(all_activities) : PlayerInvolved(player_name, a)})

\* players.py 521-529: the claim entry built from a waiver activity.
WaiverClaimEntry(activity_dict) ==
    [type |-> "WAIVER_ACTIVITY",
     activity_type |-> GetType(activity_dict),
     player |-> activity_dict.added_player,
     team |-> activity_dict.team[1].team_name,
     date |-> activity_dict.date,
     source |-> "ACTIVITY_LOG"]

\* players.py 526: activity.get("team", {}).get("team_name").  The key
\* "team" is always present, so the default {} is never used, and a team
\* that is None has no get: AttributeError.
TeamNameRaises(activity_dict) ==
    "team" \in DOMAIN activity_dict /\ activity_dict.team = NONE

\* players.py 470-537, for a league whose waiver_claims method is absent,
\* raises or returns nothing (Method 1, 495-514, then leaves waiver_claims
\* empty).  An exception in the loop at 521-529 reaches the outer handler.
get_waiver_claims(limit) ==
    IF league_error # NONE
      THEN <<handle_error(league_error[1], "get_waiver_claims")>>
      ELSE LET waiver_activities == get_waiver_activity(limit)
               from_waivers ==
                   Select(waiver_activities,
                          {a \in Range(waiver_activities) :
                              GetSource(a) = Some("WAIVERS")})
           IN  IF \E i \in 1..Len(from_waivers) : TeamNameRaises(from_waivers[i])
                 THEN <<handle_error("AttributeError", "get_waiver_claims")>>
                 ELSE [i \in 1..Len(from_waivers) |->
                          WaiverClaimEntry(from_waivers[i])]

(***************************************************************************)
(* The feeds and the tool calls of the model.                              *)
(***************************************************************************)
MaxFeed == 2
MaxLimit == 2

ListActivity(actions) == [date |-> "millis", actions_kind |-> "list", actions |-> actions]

FeedActivities ==
    {ListActivity(<<<<Some(TeamA), "FA ADDED", JaneDoe>>>>),
     ListActivity(<<<<Some(TeamB), "WAIVER ADDED", JohnRoe>>>>),
     ListActivity(<<<<NONE, "WAIVER ADDED", JohnRoe>>>>),
     ListActivity(<<<<Some(TeamA), "DROPPED", JaneDoe>>>>),
     ListActivity(<<<<Some(TeamA), "FA ADDED", JaneDoe>>, <<Some(TeamA), "DROPPED", JohnRoe>>>>),
     ListActivity(<<<<Some(TeamA), "TRADED", JaneDoe>>, <<Some(TeamB), "TRADED", JohnRoe>>>>),
     ListActivity(<<<<Some(TeamB), "LINEUP SET", JohnRoe>>>>),
     ListActivity(<<<<Some(TeamA), "SETTINGS CHANGED", JaneDoe>>>>),
     ListActivity(<<<<Some(TeamB), "KEEPER", JohnRoe>>>>),
     ListActivity(<<<<Some(TeamA), "BID", JaneDoe>>>>),
     ListActivity(<<<<Some(TeamA), "FA ADDED", JaneDoe>>, <<Some(TeamA), "TRADED", JohnRoe>>>>),
     [date |-> "millis", actions_kind |-> "unsized", actions |-> <<>>],
     [date |-> "str", actions_kind |-> "list", actions |-> <<>>]}

FetchModes == {"list", "empty", "raise"}
TypeFilters == {NONE, Some("ADD"), Some("DROP"), Some("WAIVER_MOVED")}
KindViews == {"get_trade_activity", "get_add_drop_activity", "get_lineup_activity",
              "get_settings_activity", "get_keeper_activity"}

\* Either the league cannot be fetched, or it can and the vendor holds a feed.
FeedInit ==
    /\ \/ /\ league_error \in {Some("401"), Some("Invalid league")}
          /\ feed = <<>>
          /\ no_size_mode = "list"
          /\ sized_mode = "list"
       \/ /\ league_error = NONE
          /\ feed \in SeqsUpTo(FeedActivities, MaxFeed)
          /\ no_size_mode \in FetchModes
          /\ sized_mode \in FetchModes
    /\ call = NONE
    /\ result = <<>>

Args(op, limit, activity_type, off, team_id, player_name) ==
    [op |-> op, limit |-> limit, activity_type |-> activity_type, offset |-> off,
     team_id |-> team_id, player_name |-> player_name]

CallRecentActivity ==
    /\ UNCHANGED notFeed
    /\ call = NONE
    /\ \E limit \in 1..MaxLimit, activity_type \in TypeFilters, off \in 0..1 :
          /\ call' = Some(Args("get_recent_activity", limit, activity_type, off, 0, <<>>))
          /\ result' = get_recent_activity(limit, activity_type, off)
    /\ UNCHANGED <<league_error, feed, no_size_mode, sized_mode>>

CallWaiverActivity ==
    /\ UNCHANGED notFeed
    /\ call = NONE
    /\ \E limit \in 1..MaxLimit :
          /\ call' = Some(Args("get_waiver_activity", limit, NONE, 0, 0, <<>>))
          /\ result' = get_waiver_activity(limit)
    /\ UNCHANGED <<league_error, feed, no_size_mode, sized_mode>>

ViewTypes(op) ==
    CASE op = "get_trade_activity" -> trade_types
      [] op = "get_add_drop_activity" -> add_drop_types
      [] op = "get_lineup_activity" -> lineup_types
      [] op = "get_settings_activity" -> settings_types
      [] op = "get_keeper_activity" -> keeper_types

CallKindView ==
    /\ UNCHANGED notFeed
    /\ call = NONE
    /\ \E op \in KindViews, limit \in 1..MaxLimit :
          /\ call' = Some(Args(op, limit, NONE, 0, 0, <<>>))
          /\ result' = KindView(ViewTypes(op), limit)
    /\ UNCHANGED <<league_error, feed, no_size_mode, sized_mode>>

CallTeamTransactions ==
    /\ UNCHANGED notFeed
    /\ call = NONE
    /\ \E team_id \in {1, 2}, limit \in 1..MaxLimit :
          /\ call' = Some(Args("get_team_transactions", limit, NONE, 0, team_id, <<>>))
          /\ result' = get_team_transactions(team_id, limit)
    /\ UNCHANGED <<league_error, feed, no_size_mode, sized_mode>>

CallPlayerHistory ==
    /\ UNCHANGED notFeed
    /\ call = NONE
    /\ \E player_name \in {<<"j">>, <<"J", "d">>, <<"r">>} :
          /\ call' = Some(Args("get_player_transaction_history", 0, NONE, 0, 0, player_name))
          /\ result' = get_player_transaction_history(player_name)
    /\ UNCHANGED <<league_error, feed, no_size_mode, sized_mode>>

\* The league of the model has no waiver_claims method of its own (or one
\* that raises or returns nothing), so the call always reaches Method 2.
CallWaiverClaims ==
    /\ UNCHANGED notFeed
    /\ call = NONE
    /\ \E limit \in 1..MaxLimit :
          /\ call' = Some(Args("get_waiver_claims", limit, NONE, 0, 0, <<>>))
          /\ result' = get_waiver_claims(limit)
    /\ UNCHANGED <<league_error, feed, no_size_mode, sized_mode>>

\* One tool call per behaviour: the calls share no state, so a second call
\* from the same feed behaves as a first one.
FeedNext ==
    \/ CallRecentActivity
    \/ CallWaiverActivity
    \/ CallKindView
    \/ CallTeamTransactions
    \/ CallPlayerHistory
    \/ CallWaiverClaims

InitFeed == PagIdle /\ ClsIdle /\ FeedInit /\ SearchIdle /\ ScanIdle /\ MatchIdle /\ FetchIdle /\ LeagueIdle

SpecFeed == InitFeed /\ [][FeedNext]_vars

HasError(payload) == \E i \in 1..Len(payload) : "error" \in DOMAIN payload[i]

(***************************************************************************)
(* C8: when get_league raises, every tool call returns a payload carrying  *)
(* an "error" key, the filtered views included (never a plain empty        *)
(* list).                                                                  *)
(***************************************************************************)
C8_ErrorPayloadWhenLeagueFails ==
    (call # NONE /\ league_error # NONE) => HasError(result)

\* Did classifying the vendor activity fail (raise, or give the error record).
ClassificationFails(a) ==
    \/ activity_to_dict(a) = Raised
    \/ "error" \in DOMAIN activity_to_dict(a)

\* payload is, in feed order, one diagnostic entry per failed activity and
\* the record of every classified activity that passes the filter.
RECURSIVE C9_Matches(_, _, _)
C9_Matches(payload, activities, activity_type) ==
    IF activities = <<>>
      THEN payload = <<>>
      ELSE LET a == Head(activities) IN
           IF ClassificationFails(a)
             THEN /\ payload # <<>>
                  /\ "error" \in DOMAIN Head(payload)
                  /\ C9_Matches(Tail(payload), Tail(activities), activity_type)
             ELSE IF activity_type = NONE \/ activity_to_dict(a).type = activity_type[1]
                    THEN /\ payload # <<>>
                         /\ Head(payload) = activity_to_dict(a)
                         /\ C9_Matches(Tail(payload), Tail(activities), activity_type)
                    ELSE C9_Matches(payload, Tail(activities), activity_type)

(***************************************************************************)
(* C9: get_recent_activity with offset 0 and a limit of at least the feed  *)
(* length returns, for every activity_type filter, the classified records  *)
(* that pass the filter, in feed order, plus exactly one diagnostic error  *)
(* entry per activity whose classification failed.                         *)
(***************************************************************************)
C9_OneDiagnosticPerFailedActivity ==
    ( /\ call # NONE
      /\ call[1].op = "get_recent_activity"
      /\ league_error = NONE
      /\ call[1].offset = 0
      /\ call[1].limit >= Len(FetchActivities) )
    => C9_Matches(result, FetchActivities, call[1].activity_type)

C10_KindSet(op) ==
    IF op = "get_waiver_activity" THEN waiver_types ELSE ViewTypes(op)

C10_ByKindAlone(op, limit) ==
    LET recent == get_recent_activity(2 * limit, NONE, 0)
    IN  Slice(Select(recent, {a \in Range(recent) : TypeIn(a, C10_KindSet(op))}),
              0, limit)

(***************************************************************************)
(* C10: each view called with limit L returns exactly the records of       *)
(* get_recent_activity(limit=2L) whose kind is in the view's kind set, in  *)
(* feed order, cut to the first L: membership depends on the kind alone.   *)
(***************************************************************************)
C10_ViewsFilterOnKindAlone ==
    (call # NONE /\ call[1].op \in KindViews \cup {"get_waiver_activity"})
    => result = C10_ByKindAlone(call[1].op, call[1].limit)

(***************************************************************************)
(* fuzzy_match_name and search_players.                                    *)
(*                                                                         *)
(* A vendor player is [playerId, name]; playerId is NONE when the object   *)
(* has no id.  A free-agent candidate also carries partial and token_set:  *)
(* what fuzz.partial_ratio and fuzz.token_set_ratio (rapidfuzz, outside    *)
(* the repository) return for the lower-cased search term and its name.    *)
(***************************************************************************)

\* str.split(): the maximal runs of non-blank characters.
RECURSIVE SplitFrom(_, _, _)
SplitFrom(str, word, words) ==
    IF str = <<>>
      THEN IF word = <<>> THEN words ELSE Append(words, word)
      ELSE IF Head(str) = " "
             THEN SplitFrom(Tail(str), <<>>,
                            IF word = <<>> THEN words ELSE Append(words, word))
             ELSE SplitFrom(Tail(str), Append(word, Head(str)), words)

Split(str) == SplitFrom(str, <<>>, <<>>)

\* players.py 46-49: the first-name heuristic.
FirstNameMatch(search_lower, name_lower) ==
    LET search_parts == Split(search_lower)
        name_parts == Split(name_lower)
    IN  /\ Len(search_parts) > 1
        /\ Len(name_parts) > 1
        /\ search_parts[1] = name_parts[1]

\* players.py 49.
FIRST_NAME_SCORE == 85

\* players.py 29.
SUBSTRING_SCORE == 100

\* players.py 23: `if not search_term or not player_name`.
EmptyInput_termOnly(search, name) == search = <<>>
EmptyInput(search, name) == search = <<>> \/ name = <<>>

\* players.py 12-51, with the two library scores as arguments.
fuzzy_match_name_noFastPath(search, player_name, threshold, partial, token_set) ==
    IF EmptyInput(search, player_name)
      THEN [is_match |-> FALSE, score |-> 0]
      ELSE IF partial >= threshold
             THEN [is_match |-> TRUE, score |-> partial]
             ELSE IF token_set >= threshold
                    THEN [is_match |-> TRUE, score |-> token_set]
                    ELSE IF FirstNameMatch(Lower(search), Lower(player_name))
                           THEN [is_match |-> TRUE, score |-> FIRST_NAME_SCORE]
                           ELSE [is_match |-> FALSE, score |-> token_set]
fuzzy_match_name_laxPartial(search, player_name, threshold, partial, token_set) ==
    IF EmptyInput(search, player_name)
      THEN [is_match |-> FALSE, score |-> 0]
      ELSE IF IsSubstring(Lower(search), Lower(player_name))
             THEN [is_match |-> TRUE, score |-> SUBSTRING_SCORE]
             ELSE IF partial >= threshold - 1
                    THEN [is_match |-> TRUE, score |-> partial]
                    ELSE IF token_set >= threshold
                           THEN [is_match |-> TRUE, score |-> token_set]
                           ELSE IF FirstNameMatch(Lower(search), Lower(player_name))
                                  THEN [is_match |-> TRUE, score |-> FIRST_NAME_SCORE]
                                  ELSE [is_match |-> FALSE, score |-> token_set]
fuzzy_match_name_tokenFirst(search, player_name, threshold, partial, token_set) ==
    IF EmptyInput(search, player_name)
      THEN [is_match |-> FALSE, score |-> 0]
      ELSE IF IsSubstring(Lower(search), Lower(player_name))
             THEN [is_match |-> TRUE, score |-> SUBSTRING_SCORE]
             ELSE IF token_set >= threshold
                    THEN [is_match |-> TRUE, score |-> token_set]
                    ELSE IF partial >= threshold
                           THEN [is_match |-> TRUE, score |-> partial]
                           ELSE IF FirstNameMatch(Lower(search), Lower(player_name))
                                  THEN [is_match |-> TRUE, score |-> FIRST_NAME_SCORE]
                                  ELSE [is_match |-> FALSE, score |-> token_set]
fuzzy_match_name(search, player_name, threshold, partial, token_set) ==
    IF EmptyInput(search, player_name)
      THEN [is_match |-> FALSE, score |-> 0]
      ELSE IF IsSubstring(Lower(search), Lower(player_name))
             THEN [is_match |-> TRUE, score |-> SUBSTRING_SCORE]
             ELSE IF partial >= threshold
                    THEN [is_match |-> TRUE, score |-> partial]
                    ELSE IF token_set >= threshold
                           THEN [is_match |-> TRUE, score |-> token_set]
                           ELSE IF FirstNameMatch(Lower(search), Lower(player_name))
                                  THEN [is_match |-> TRUE, score |-> FIRST_NAME_SCORE]
                                  ELSE [is_match |-> FALSE, score |-> token_set]

\* utils.py 160-204 followed by the update at players.py 419-427 or
\* 439-443, restricted to the keys search_players reads afterwards.
MatchDict(player, status, score) ==
    [player_id |-> player.playerId,
     name |-> player.name,
     status |-> status,
     match_score |-> score]

\* players.py 426.
ROSTERED_SCORE == 100

\* players.py 417: the roster test on the lower-cased search term.
RosterTest(search_lower, name) == IsSubstring(search_lower, Lower(name))

\* players.py 414-428: the roster scan, over the rosters in team order.
RECURSIVE RosterScan(_, _)
RosterScan(roster, search_lower) ==
    IF roster = <<>>
      THEN <<>>
      ELSE IF RosterTest(search_lower, Head(roster).name)
             THEN <<MatchDict(Head(roster), "ROSTERED", ROSTERED_SCORE)>>
                  \o RosterScan(Tail(roster), search_lower)
             ELSE RosterScan(Tail(roster), search_lower)

\* players.py 431, 445.
RESULT_CAP == 50

\* players.py 436.
SEARCH_THRESHOLD == 80

\* players.py 431: is the free-agent pool scanned at all.
WantFreeAgents_always(inc_free_agents, matches) == inc_free_agents
WantFreeAgents(inc_free_agents, matches) ==
    inc_free_agents /\ Len(matches) < RESULT_CAP

\* players.py 445: the early stop of the free-agent scan.
ResultCapHit_never(matches) == FALSE
ResultCapHit(matches) == Len(matches) >= RESULT_CAP

\* players.py 433-449: the loop over the yielded free agents.
RECURSIVE FreeAgentScan(_, _, _)
FreeAgentScan(matches, candidates, search) ==
    IF candidates = <<>>
      THEN matches
      ELSE LET player == Head(candidates)
               m == fuzzy_match_name(search, player.name, SEARCH_THRESHOLD,
                                     player.partial, player.token_set)
           IN  IF m.is_match
                 THEN LET more == Append(matches, MatchDict(player, "FREE_AGENT", m.score))
                      IN  IF ResultCapHit(more)
                            THEN more
                            ELSE FreeAgentScan(more, Tail(candidates), search)
                 ELSE FreeAgentScan(matches, Tail(candidates), search)

\* players.py 410-451: the list matching_players before deduplication.
CollectMatches(search, inc_rostered, inc_free_agents, roster, candidates) ==
    LET rostered == IF inc_rostered THEN RosterScan(roster, Lower(search)) ELSE <<>>
    IN  IF WantFreeAgents(inc_free_agents, rostered)
          THEN FreeAgentScan(rostered, candidates, search)
          ELSE rostered

\* players.py 460: does player replace the entry kept for its id.
Better_flipped(player, current_best) == player.match_score < current_best.match_score
Better(player, current_best) == player.match_score > current_best.match_score

\* players.py 457-458: what the loop does with a match without an id.
SkipNoId(player) == player.player_id = NONE

\* players.py 454-461.  player_map is the list of its values in insertion
\* order of their keys (a replaced entry keeps its place, as in a dict).
RECURSIVE Dedup(_, _)
Dedup(player_map, matches) ==
    IF matches = <<>>
      THEN player_map
      ELSE LET player == Head(matches)
               at == {i \in 1..Len(player_map) : player_map[i].player_id = player.player_id}
           IN  IF SkipNoId(player)
                 THEN Dedup(player_map, Tail(matches))
                 ELSE IF at = {}
                        THEN Dedup(Append(player_map, player), Tail(matches))
                        ELSE LET i == CHOOSE j \in at : TRUE
                             IN  IF Better(player, player_map[i])
                                   THEN Dedup([player_map EXCEPT ![i] = player], Tail(matches))
                                   ELSE Dedup(player_map, Tail(matches))

\* Character order of the model's alphabet (ord):
\* " " < "A" < "B" < "J" < "a" < "b" < "c" < "d" < "j" < "r".
CharRank(c) ==
    CASE c = " " -> 0
      [] c = "A" -> 1
      [] c = "B" -> 2
      [] c = "J" -> 3
      [] c = "a" -> 4
      [] c = "b" -> 5
      [] c = "c" -> 6
      [] c = "d" -> 7
      [] c = "j" -> 8
      [] OTHER -> 9

\* a < b for strings.
RECURSIVE StrLess(_, _)
StrLess(a, b) ==
    IF b = <<>>
      THEN FALSE
      ELSE IF a = <<>>
             THEN TRUE
             ELSE IF Head(a) = Head(b)
                    THEN StrLess(Tail(a), Tail(b))
                    ELSE CharRank(Head(a)) < CharRank(Head(b))

\* players.py 464: key(p) < key(q) for key = (-match_score, name.lower()).
KeyLess_caseSensitive(p, q) ==
    \/ p.match_score > q.match_score
    \/ p.match_score = q.match_score /\ StrLess(p.name, q.name)
KeyLess(p, q) ==
    \/ p.match_score > q.match_score
    \/ p.match_score = q.match_score /\ StrLess(Lower(p.name), Lower(q.name))

\* list.sort(key=...): a stable sort, here by insertion.
RECURSIVE InsertSorted(_, _)
InsertSorted(sorted, p) ==
    IF sorted = <<>>
      THEN <<p>>
      ELSE IF KeyLess(p, Head(sorted))
             THEN <<p>> \o sorted
             ELSE <<Head(sorted)>> \o InsertSorted(Tail(sorted), p)

RECURSIVE SortPlayers(_)
SortPlayers(list) ==
    IF list = <<>>
      THEN <<>>
      ELSE InsertSorted(SortPlayers(SubSeq(list, 1, Len(list) - 1)), list[Len(list)])

\* players.py 453-465.
DedupAndSort(matches) == SortPlayers(Dedup(<<>>, matches))

(***************************************************************************)
(* The leagues and the searches of the model.                              *)
(***************************************************************************)
MaxRoster == 1
MaxFreeAgents == 2

NameAb == <<"A", "b">>
NameB == <<"b">>
NameAsB == <<"a", " ", "b">>

SearchTerms == {<<>>, <<"a">>, <<"a", " ", "c">>}

RosterPlayers ==
    {[playerId |-> Some(1), name |-> NameAb],
     [playerId |-> NONE, name |-> NameAb],
     [playerId |-> Some(2), name |-> NameB],
     [playerId |-> Some(2), name |-> NameAsB]}

Candidate(id, name, partial, token_set) ==
    [playerId |-> id, name |-> name, partial |-> partial, token_set |-> token_set]

FreeAgentCandidates ==
    {Candidate(Some(1), NameAb, 90, 70),
     Candidate(Some(1), NameB, 90, 70),
     Candidate(Some(2), NameB, 70, 95),
     Candidate(Some(2), NameAsB, 70, 70),
     Candidate(NONE, NameB, 90, 70),
     Candidate(Some(1), NameB, 60, 60)}

SearchInit ==
    /\ search_term \in SearchTerms
    /\ include_rostered \in BOOLEAN
    /\ include_free_agents \in BOOLEAN
    /\ rosters \in SeqsUpTo(RosterPlayers, MaxRoster)
    /\ free_agents \in SeqsUpTo(FreeAgentCandidates, MaxFreeAgents)
    /\ matching_players = <<>>
    /\ found = NONE

\* search_players(league_id, search_term, include_rostered,
\* include_free_agents) on a league that can be fetched.
SearchPlayers ==
    /\ UNCHANGED notSearch
    /\ found = NONE
    /\ matching_players' = CollectMatches(search_term, include_rostered,
                                          include_free_agents, rosters, free_agents)
    /\ found' = Some(DedupAndSort(matching_players'))
    /\ UNCHANGED <<search_term, include_rostered, include_free_agents, rosters,
                   free_agents>>

SearchNext == SearchPlayers

InitSearch == PagIdle /\ ClsIdle /\ FeedIdle /\ SearchInit /\ ScanIdle /\ MatchIdle /\ FetchIdle /\ LeagueIdle

SpecSearch == InitSearch /\ [][SearchNext]_vars

\* The matches collected for a player id, and the best score among them.
MatchesOf(id) ==
    {i \in 1..Len(matching_players) : matching_players[i].player_id = id}
BestScoreOf(id) ==
    CHOOSE best \in {matching_players[i].match_score : i \in MatchesOf(id)} :
        \A i \in MatchesOf(id) : matching_players[i].match_score <= best

(***************************************************************************)
(* C5: the list search_players returns holds at most one result per        *)
(* player id, and the result of an id carries the highest match score      *)
(* among all the matches the roster scan and the free-agent scan           *)
(* collected for that id.                                                  *)
(***************************************************************************)
C5_OnePerIdWithBestScore ==
    found # NONE =>
        /\ \A i, j \in 1..Len(found[1]) :
              found[1][i].player_id = found[1][j].player_id => i = j
        /\ \A i \in 1..Len(found[1]) :
              /\ MatchesOf(found[1][i].player_id) # {}
              /\ found[1][i].match_score = BestScoreOf(found[1][i].player_id)
        /\ \A k \in 1..Len(matching_players) :
              matching_players[k].player_id # NONE =>
                 \E i \in 1..Len(found[1]) :
                    found[1][i].player_id = matching_players[k].player_id

\* One id matched twice, the lower score first, and another id as well.
C5_Witness ==
    /\ found # NONE
    /\ Len(found[1]) = 2
    /\ \E k, l \in 1..Len(matching_players) :
          /\ k < l
          /\ matching_players[k].player_id = matching_players[l].player_id
          /\ matching_players[k].player_id # NONE
          /\ matching_players[k].match_score < matching_players[l].match_score

(***************************************************************************)
(* C6: a matched player without an id is only left out of deduplication    *)
(* and kept as it is: it still appears in the list search_players          *)
(* returns.  (Stated for a non-empty search term, so that the match is     *)
(* one the name test is meant to make.)                                    *)
(***************************************************************************)
C6_NoIdMatchIsKept ==
    (found # NONE /\ search_term # <<>>) =>
        \A k \in 1..Len(matching_players) :
            matching_players[k].player_id = NONE =>
                \E i \in 1..Len(found[1]) : found[1][i] = matching_players[k]

(***************************************************************************)
(* C7: search_players called with an empty search_term returns an empty    *)
(* list, whatever include_rostered and include_free_agents are and         *)
(* whatever the rosters and the free-agent pool hold.                      *)
(***************************************************************************)
C7_EmptyTermFindsNothing ==
    (found # NONE /\ search_term = <<>>) => found[1] = <<>>


(***************************************************************************)
(* The tuple pass of activity_to_dict, seen tuple by tuple.                *)
(***************************************************************************)
\* The dictionary after the first k tuples of the recorded activity.
AfterTuples(k) ==
    ProcessActions(InitialDict(activity[1].date),
                   SubSeq(activity[1].actions, 1, k))

KindOf(first) == IF first = NONE THEN "UNKNOWN_ACTIVITY" ELSE first[1]

\* A tuple the pass skips: not a 3-tuple, or its string is not in the table.
Skipped(t) == Len(t) # 3 \/ t[2] \notin DOMAIN ESPN_ACTION_TYPE_MAP

RECURSIVE WithoutSkipped(_)
WithoutSkipped(actions) ==
    IF actions = <<>>
      THEN <<>>
      ELSE IF Skipped(Head(actions))
             THEN WithoutSkipped(Tail(actions))
             ELSE <<Head(actions)>> \o WithoutSkipped(Tail(actions))

\* The team of the first well-formed tuple that has one.
RECURSIVE FirstTeam(_)
FirstTeam(actions) ==
    IF actions = <<>>
      THEN NONE
      ELSE IF Len(Head(actions)) = 3 /\ Head(actions)[1] # NONE
             THEN Head(actions)[1]
             ELSE FirstTeam(Tail(actions))

\* The first well-formed tuple whose string the table maps to `kind`.
RECURSIVE FirstOfKind(_, _)
FirstOfKind(actions, kind) ==
    IF actions = <<>>
      THEN NONE
      ELSE IF ~Skipped(Head(actions))
                /\ ESPN_ACTION_TYPE_MAP[Head(actions)[2]] = kind
             THEN Some(Head(actions))
             ELSE FirstOfKind(Tail(actions), kind)

PlayerOf(found_tuple) ==
    IF found_tuple = NONE THEN NONE ELSE Some([name |-> found_tuple[1][3]])

\* The fields an unrecognized or malformed tuple must leave alone.
FrameFields(d) ==
    <<d.type, d.added_player, d.dropped_player, d.players_in, d.players_out,
      d.source>>

(***************************************************************************)
(* C11: the kind is assigned once, from the first tuple in original order  *)
(* whose string is in the table: after every prefix of the tuples the      *)
(* kind is that of the first mapped tuple of the prefix                    *)
(* (UNKNOWN_ACTIVITY while none mapped), so later mapped kinds never       *)
(* change it; the returned kind is that first mapped kind, or ROSTER_MOVE  *)
(* from the post-pass, and UNKNOWN_ACTIVITY when no tuple maps.            *)
(***************************************************************************)
C11_KindFromFirstMapped ==
    IsActivityRecord =>
        LET acts == activity[1].actions
            first == FirstMapped(acts)
        IN  /\ \A k \in 0..Len(acts) :
                  AfterTuples(k).type = KindOf(FirstMapped(SubSeq(acts, 1, k)))
            /\ record[1].type \in {KindOf(first), "ROSTER_MOVE"}
            /\ first = NONE => record[1].type = "UNKNOWN_ACTIVITY"

\* A trade first, then a waiver move and an add: the kind stays the trade.
C11_Witness ==
    /\ IsActivityRecord
    /\ Len(activity[1].actions) = 3
    /\ activity[1].actions[1] = <<Some(TeamA), "TRADED", JaneDoe>>
    /\ activity[1].actions[2] = <<Some(TeamA), "WAIVER", JaneDoe>>
    /\ activity[1].actions[3] = <<Some(TeamB), "WAIVER ADDED", JohnRoe>>
    /\ record[1].type = "TRADE_ACCEPTED"

(***************************************************************************)
(* C12: the record's team is the snapshot of the team of the first         *)
(* well-formed tuple, in original order, that carries a team, whether or   *)
(* not its string is recognized; later tuples do not overwrite it, and it  *)
(* is null when no tuple carries a team.                                   *)
(***************************************************************************)
C12_TeamFromFirstTuple ==
    IsActivityRecord =>
        LET first == FirstTeam(activity[1].actions) IN
        /\ first = NONE => record[1].team = NONE
        /\ first # NONE =>
              /\ record[1].team # NONE
              /\ record[1].team[1].team_id = first[1].team_id
              /\ record[1].team[1].team_name = first[1].team_name

\* No team on the first tuple, TeamA on an unrecognized second one, TeamB on
\* the third: the team is TeamA.
C12_Witness ==
    /\ IsActivityRecord
    /\ Len(activity[1].actions) = 3
    /\ activity[1].actions[1] = <<NONE, "FA ADDED", JohnRoe>>
    /\ activity[1].actions[2] = <<Some(TeamA), "FOO BAR", JaneDoe>>
    /\ activity[1].actions[3] = <<Some(TeamB), "DROPPED", JohnRoe>>
    /\ record[1].team = Some(team_to_dict(TeamA))

(***************************************************************************)
(* C13: a tuple that is malformed or whose string is not in the table is   *)
(* skipped: passing it changes none of kind, added_player, dropped_player, *)
(* players_in, players_out and source (a malformed one changes nothing at  *)
(* all), the other tuples are processed as if it were not there, and the   *)
(* kind is UNKNOWN_ACTIVITY when every tuple is skipped.                   *)
(***************************************************************************)
C13_SkippedTupleChangesNothing ==
    IsActivityRecord =>
        LET a == activity[1]
            acts == a.actions
        IN  /\ \A k \in 1..Len(acts) :
                  Skipped(acts[k]) =>
                     /\ FrameFields(AfterTuples(k)) = FrameFields(AfterTuples(k - 1))
                     /\ Len(acts[k]) # 3 => AfterTuples(k) = AfterTuples(k - 1)
            /\ FrameFields(record[1]) =
                  FrameFields(activity_to_dict(
                      [a EXCEPT !.actions = WithoutSkipped(acts)]))
            /\ (\A k \in 1..Len(acts) : Skipped(acts[k])) =>
                  record[1].type = "UNKNOWN_ACTIVITY"

\* A malformed tuple and an unrecognized one before a drop: the drop is
\* still processed, and nothing else is set.
C13_Witness ==
    /\ IsActivityRecord
    /\ Len(activity[1].actions) = 3
    /\ activity[1].actions[1] = <<Some(TeamA), "FOO BAR">>
    /\ activity[1].actions[2] = <<Some(TeamA), "FOO BAR", JaneDoe>>
    /\ activity[1].actions[3] = <<Some(TeamB), "DROPPED", JohnRoe>>
    /\ record[1].type = "DROP"
    /\ record[1].dropped_player = Some([name |-> JohnRoe])
    /\ record[1].added_player = NONE
    /\ record[1].source = NONE

(***************************************************************************)
(* C14: added_player is the player of the first tuple mapped to ADD and    *)
(* dropped_player the player of the first tuple mapped to DROP; source is  *)
(* FREE_AGENT when that first ADD tuple says "FA ADDED" and WAIVERS when   *)
(* it says "WAIVER ADDED", whatever later tuples say; the single tuple     *)
(* (TeamA, "FA ADDED", p) gives kind ADD, added_player p, source           *)
(* FREE_AGENT and team TeamA.                                              *)
(***************************************************************************)
C14_FirstAddAndDropWin ==
    IsActivityRecord =>
        LET acts == activity[1].actions
            first_add == FirstOfKind(acts, "ADD")
            first_drop == FirstOfKind(acts, "DROP")
        IN  /\ record[1].added_player = PlayerOf(first_add)
            /\ record[1].dropped_player = PlayerOf(first_drop)
            /\ record[1].source =
                  (IF first_add = NONE
                     THEN NONE
                     ELSE IF first_add[1][2] = "FA ADDED"
                            THEN Some("FREE_AGENT")
                            ELSE Some("WAIVERS"))
            /\ acts = << <<Some(TeamA), "FA ADDED", JaneDoe>> >> =>
                  /\ record[1].type = "ADD"
                  /\ record[1].added_player = Some([name |-> JaneDoe])
                  /\ record[1].source = Some("FREE_AGENT")
                  /\ record[1].team = Some(team_to_dict(TeamA))

\* A free-agent add, then a waiver add of another player: the first stays.
C14_Witness ==
    /\ IsActivityRecord
    /\ Len(activity[1].actions) = 2
    /\ activity[1].actions[1] = <<Some(TeamA), "FA ADDED", JaneDoe>>
    /\ activity[1].actions[2] = <<Some(TeamB), "WAIVER ADDED", JohnRoe>>
    /\ record[1].added_player = Some([name |-> JaneDoe])
    /\ record[1].source = Some("FREE_AGENT")

(***************************************************************************)
(* C15: the kind of every record activity_to_dict returns, also of the     *)
(* record returned when classification fails, is a member of the closed    *)
(* set of activity kinds.                                                  *)
(***************************************************************************)
ActivityKind ==
    {"ADD", "DROP", "ROSTER_MOVE", "TRADE_ACCEPTED", "TRADE_PENDING",
     "TRADE_DECLINED", "WAIVER_MOVED", "WAIVER_BUDGET_USED", "LINEUP_SET",
     "DRAFT_PICK", "KEEPER_SELECT", "LEAGUE_EDIT", "TEAM_EDIT",
     "UNKNOWN_ACTIVITY"}

C15_KindInClosedSet == Returned => record[1].type \in ActivityKind


(***************************************************************************)
(* C16: the list search_players returns is ordered by descending match     *)
(* score and, among equal scores, by ascending lower-cased name: of two    *)
(* neighbours the first has the higher score, or they have the same score  *)
(* and the first's lower-cased name is not after the second's.             *)
(***************************************************************************)
C16_SortedByScoreThenName ==
    found # NONE =>
        \A i \in 1..(Len(found[1]) - 1) :
            LET r == found[1][i]
                nxt == found[1][i + 1]
            IN  \/ r.match_score > nxt.match_score
                \/ /\ r.match_score = nxt.match_score
                   /\ ~StrLess(Lower(nxt.name), Lower(r.name))

\* Two results with score 100, collected as "Ab" then "a b": the sort put
\* "a b" first, which the order of the raw names would not.
C16_Witness ==
    /\ found # NONE
    /\ Len(matching_players) = 2
    /\ matching_players[1].name = NameAb
    /\ matching_players[2].name = NameAsB
    /\ Len(found[1]) = 2
    /\ found[1][1].name = NameAsB
    /\ found[1][2].name = NameAb
    /\ found[1][1].match_score = found[1][2].match_score
    /\ StrLess(NameAb, NameAsB)


(***************************************************************************)
(* C19: whatever the remote source returns (also full or over-long pages   *)
(* for ever, also with batch_size 0), the generator driven by a consumer   *)
(* that keeps pulling comes to its end: every pass of the loop that comes  *)
(* back to the while test has yielded at least one more item, so at the    *)
(* while test the requests issued never outnumber the items yielded, and   *)
(* the generator is eventually done.                                       *)
(***************************************************************************)
C19_FetcherEnds ==
    /\ [](gpc = "head" => requests <= yielded)
    /\ <>(gpc \in {"done", "raised"})

\* batch_size 0 and over-long pages all the way: only the cap ended it.
C19_Witness ==
    /\ gpc = "done"
    /\ batch_size = 0
    /\ max_players = MaxMaxPlayers
    /\ yielded = max_players
    /\ requests > 1
    /\ ~short_seen
    /\ ~failed


(***************************************************************************)
(* search_players driving get_paginated_free_agents: the free-agent scan   *)
(* step by step, the generator's page requests included.                   *)
(***************************************************************************)

\* players.py 433: batch_size=200, max_players=1000.
SCAN_BATCH_SIZE == 200
SCAN_MAX_PLAYERS == 1000

\* The remote pool: the free agent at position i (from 0).  In an "all"
\* pool every name contains the search term "a"; in a "none" pool no
\* player matches; in a "sparse" pool one player in SparseStep matches, by
\* its partial ratio.
PoolKinds == {"all", "none", "sparse"}
SparseStep == 50
PoolPlayer(kind, i) ==
    CASE kind = "all" -> Candidate(Some(i + 1), NameAsB, 60, 60)
      [] kind = "sparse" /\ i % SparseStep = 1 -> Candidate(Some(i + 1), NameB, 90, 70)
      [] OTHER -> Candidate(Some(i + 1), NameB, 60, 60)

\* A league whose rosters hold n players, all named "Ab".
ScanRoster(n) == [i \in 1..n |-> [playerId |-> Some(0 - i), name |-> NameAb]]
ScanRosterSizes == {0, 1, RESULT_CAP - 1, RESULT_CAP, RESULT_CAP + 1}

ScanInit ==
    /\ league_error \in {NONE, Some("Unavailable")}
    /\ feed = <<>>
    /\ no_size_mode = "list"
    /\ sized_mode = "list"
    /\ call = NONE
    /\ result = <<>>
    /\ search_term = <<"a">>
    /\ include_rostered \in BOOLEAN
    /\ include_free_agents \in BOOLEAN
    /\ rosters \in {ScanRoster(n) : n \in ScanRosterSizes}
    /\ free_agents = <<>>
    /\ matching_players = <<>>
    /\ found = NONE
    /\ spc = "call"
    /\ pool_kind \in PoolKinds

\* players.py 400-433: get_league, the roster scan, and the decision to
\* scan the free agents (the generator is created, not yet started).
ScanStart ==
    /\ UNCHANGED notScan
    /\ spc = "call"
    /\ IF league_error # NONE
         THEN /\ found' = Some(<<handle_error(league_error[1], "search_players")>>)
              /\ spc' = "returned"
              /\ UNCHANGED <<matching_players, pagVars>>
         ELSE LET rostered == IF include_rostered
                                THEN RosterScan(rosters, Lower(search_term))
                                ELSE <<>>
              IN  /\ matching_players' = rostered
                  /\ IF WantFreeAgents(include_free_agents, rostered)
                       THEN /\ spc' = "scan"
                            /\ batch_size' = SCAN_BATCH_SIZE
                            /\ max_players' = SCAN_MAX_PLAYERS
                            /\ gpc' = "head"
                            /\ UNCHANGED <<found, offset, total_players,
                                           batch_len, batch_idx, requests,
                                           yielded, short_seen, fetched, failed>>
                       ELSE /\ spc' = "returned"
                            /\ found' = Some(DedupAndSort(rostered))
                            /\ UNCHANGED pagVars
    /\ UNCHANGED <<search_term, include_rostered, include_free_agents, rosters,
                   free_agents, pool_kind>>

\* The generator runs up to its next yield or to its end.
ScanGenerator ==
    /\ spc = "scan"
    /\ LoopExit \/ PageRequest \/ PageRequestFails \/ NextItem

\* players.py 434-446: the body of the for loop on the player just
\* yielded, then either the break at the result cap (the generator is
\* dropped, the function goes on to 453-465 and returns) or the next pull,
\* which resumes the generator after its yield (players.py 77).
ScanItem ==
    /\ UNCHANGED notScan
    /\ spc = "scan"
    /\ gpc = "yielded"
    /\ LET player == PoolPlayer(pool_kind, offset + batch_idx - 1)
           m == fuzzy_match_name(search_term, player.name, SEARCH_THRESHOLD,
                                 player.partial, player.token_set)
           more == IF m.is_match
                     THEN Append(matching_players,
                                 MatchDict(player, "FREE_AGENT", m.score))
                     ELSE matching_players
       IN  /\ matching_players' = more
           /\ IF m.is_match /\ ResultCapHit(more)
                THEN /\ gpc' = "done"
                     /\ spc' = "returned"
                     /\ found' = Some(DedupAndSort(more))
                     /\ UNCHANGED total_players
                ELSE /\ gpc' = "iter"
                     /\ total_players' = total_players + 1
                     /\ UNCHANGED <<spc, found>>
    /\ UNCHANGED <<batch_size, max_players, offset, batch_len, batch_idx,
                   requests, yielded, short_seen, fetched, failed>>
    /\ UNCHANGED <<search_term, include_rostered, include_free_agents, rosters,
                   free_agents, pool_kind>>

\* The generator has ended (or its exception was caught at players.py
\* 450-451): deduplicate, sort, return (players.py 453-465).
ScanFinish ==
    /\ UNCHANGED notScan
    /\ spc = "scan"
    /\ gpc \in {"done", "raised"}
    /\ found' = Some(DedupAndSort(matching_players))
    /\ spc' = "returned"
    /\ UNCHANGED <<pagVars, search_term, include_rostered, include_free_agents,
                   rosters, free_agents, matching_players, pool_kind>>

ScanNext ==
    \/ ScanStart
    \/ ScanGenerator
    \/ ScanItem
    \/ ScanFinish

InitScan == PagIdle /\ ClsIdle /\ ScanInit /\ MatchIdle /\ FetchIdle /\ LeagueIdle

SpecScan == InitScan /\ [][ScanNext]_vars


(***************************************************************************)
(* C17: when the roster scan alone produced RESULT_CAP matches or more,    *)
(* no free-agent page is requested at all; and once the number of          *)
(* accumulated matches has reached RESULT_CAP, search_players has left     *)
(* the scan and the generator is never resumed: no further page request,   *)
(* no further yield.                                                       *)
(***************************************************************************)
C17_NoRequestOnceCapReached ==
    /\ []((/\ Len(matching_players) >= RESULT_CAP
           /\ matching_players[RESULT_CAP].status = "ROSTERED") => requests = 0)
    /\ [](Len(matching_players) >= RESULT_CAP => spc = "returned")
    /\ [][Len(matching_players) >= RESULT_CAP =>
             /\ requests' = requests
             /\ yielded' = yielded
             /\ total_players' = total_players]_vars

\* The cap was reached on the second player of a full first page: the rest
\* of the page was never pulled and no second page was asked for.
C17_Witness ==
    /\ spc = "returned"
    /\ found # NONE
    /\ Len(matching_players) = RESULT_CAP
    /\ matching_players[RESULT_CAP].status = "FREE_AGENT"
    /\ matching_players[RESULT_CAP - 2].status = "ROSTERED"
    /\ requests = 1
    /\ batch_len = SCAN_BATCH_SIZE
    /\ batch_idx = 2
    /\ yielded = 2
    /\ ~short_seen

(***************************************************************************)
(* C18: when a page request raises, the generator ends as on exhaustion    *)
(* (nothing is raised to the consumer), every item of the pages fetched    *)
(* before has been yielded, and no further page is requested;              *)
(* search_players then returns the matches collected so far (every         *)
(* collected match and nothing else), never an error payload.              *)
(***************************************************************************)
C18_PageFailureEndsQuietly ==
    /\ [](failed => (gpc = "done" /\ yielded = fetched))
    /\ [][failed => requests' = requests]_vars
    /\ []((failed /\ found # NONE) =>
             /\ ~HasError(found[1])
             /\ \A k \in 1..Len(matching_players) :
                   \E i \in 1..Len(found[1]) : found[1][i] = matching_players[k]
             /\ \A i \in 1..Len(found[1]) :
                   \E k \in 1..Len(matching_players) : found[1][i] = matching_players[k]
             /\ pool_kind = "all" =>
                   Cardinality({k \in 1..Len(matching_players) :
                                   matching_players[k].status = "FREE_AGENT"}) = yielded
             /\ pool_kind = "none" =>
                   \A k \in 1..Len(matching_players) :
                       matching_players[k].status = "ROSTERED")

\* The third page request raised: the rostered matches and the free agents
\* matched on the first two pages are returned.
C18_Witness ==
    /\ failed
    /\ found # NONE
    /\ requests = 3
    /\ yielded = fetched
    /\ yielded >= 2 * SCAN_BATCH_SIZE
    /\ \E i \in 1..Len(found[1]) : found[1][i].status = "ROSTERED"
    /\ \E i \in 1..Len(found[1]) : found[1][i].status = "FREE_AGENT"


(***************************************************************************)
(* fuzzy_match_name called on its own.                                     *)
(***************************************************************************)
NameCb == <<"c", " ", "b">>
MatchTerms == {<<>>, <<"a">>, <<"A">>, <<"a", " ", "c">>, NameAb}
MatchNames == {<<>>, NameAb, NameB, NameAsB, NameCb, <<"a", " ", "c">>}
MatchThresholds == {SEARCH_THRESHOLD, 90}
\* What fuzz.partial_ratio and fuzz.token_set_ratio may return.
LibraryScores == {0, 79, 80, 85, 89, 90, 95, 100}

MatchInit ==
    /\ match_args \in
          {Some([search_term |-> t, player_name |-> n, threshold |-> th,
                 partial |-> p, token_set |-> ts]) :
              t \in MatchTerms, n \in MatchNames, th \in MatchThresholds,
              p \in LibraryScores, ts \in LibraryScores}
    /\ match_result = NONE

\* fuzzy_match_name(search_term, player_name, threshold) is called.
CallMatch ==
    /\ UNCHANGED notMatch
    /\ match_args # NONE
    /\ match_result = NONE
    /\ LET a == match_args[1] IN
       match_result' = Some(fuzzy_match_name(a.search_term, a.player_name,
                                             a.threshold, a.partial, a.token_set))
    /\ UNCHANGED match_args

MatchNext == CallMatch

InitMatch == PagIdle /\ ClsIdle /\ FeedIdle /\ SearchIdle /\ ScanIdle /\ MatchInit /\ FetchIdle /\ LeagueIdle

SpecMatch == InitMatch /\ [][MatchNext]_vars

\* fuzzy_match_name called on its own, or from search_players.
InitMatchSearch == InitMatch \/ InitSearch

MatchSearchNext ==
    \/ CallMatch
    \/ SearchPlayers

SpecMatchSearch == InitMatchSearch /\ [][MatchSearchNext]_vars

(***************************************************************************)
(* C20: for non-empty inputs the strategies apply in the order substring,  *)
(* partial ratio, token-set ratio, first name, and the first that          *)
(* succeeds decides: (true, 100) when the lower-cased name contains the    *)
(* lower-cased term, whatever the library scores; else (true, partial)     *)
(* when partial >= threshold, also when token_set is higher; else          *)
(* (true, token_set) when token_set >= threshold; else (true, 85) when     *)
(* both strings have more than one token and the same first token; else    *)
(* (false, token_set).                                                     *)
(***************************************************************************)
C20_FirstStrategyWins ==
    (/\ match_result # NONE
     /\ match_args[1].search_term # <<>>
     /\ match_args[1].player_name # <<>>) =>
        LET a == match_args[1]
            r == match_result[1]
            term_tokens == Split(Lower(a.search_term))
            name_tokens == Split(Lower(a.player_name))
            contained == IsSubstring(Lower(a.search_term), Lower(a.player_name))
            first_names == /\ Len(term_tokens) > 1
                           /\ Len(name_tokens) > 1
                           /\ term_tokens[1] = name_tokens[1]
        IN  IF contained
              THEN r = [is_match |-> TRUE, score |-> 100]
              ELSE IF a.partial >= a.threshold
                     THEN r = [is_match |-> TRUE, score |-> a.partial]
                     ELSE IF a.token_set >= a.threshold
                            THEN r = [is_match |-> TRUE, score |-> a.token_set]
                            ELSE IF first_names
                                   THEN r = [is_match |-> TRUE, score |-> 85]
                                   ELSE r = [is_match |-> FALSE, score |-> a.token_set]

\* Not contained, partial ratio at the threshold, token-set ratio higher:
\* the partial ratio is the score.
C20_Witness ==
    /\ match_result # NONE
    /\ match_args[1].search_term = <<"a", " ", "c">>
    /\ match_args[1].player_name = NameAsB
    /\ match_args[1].threshold = SEARCH_THRESHOLD
    /\ match_args[1].partial = SEARCH_THRESHOLD
    /\ match_args[1].token_set = 95
    /\ match_result[1] = [is_match |-> TRUE, score |-> SEARCH_THRESHOLD]


(***************************************************************************)
(* C21: with an empty search term or an empty candidate name,              *)
(* fuzzy_match_name returns (false, 0) for every threshold and whatever    *)
(* the other string is: the empty string never matches, not even as a      *)
(* substring.                                                              *)
(***************************************************************************)
C21_EmptyNeverMatches ==
    (/\ match_result # NONE
     /\ (match_args[1].search_term = <<>> \/ match_args[1].player_name = <<>>)) =>
        match_result[1] = [is_match |-> FALSE, score |-> 0]

\* An empty term against "Ab", which contains it as a substring, with the
\* highest library scores.
C21_Witness ==
    /\ match_result # NONE
    /\ match_args[1].search_term = <<>>
    /\ match_args[1].player_name = NameAb
    /\ IsSubstring(<<>>, Lower(NameAb))
    /\ match_args[1].partial = 100
    /\ match_args[1].token_set = 100
    /\ match_result[1] = [is_match |-> FALSE, score |-> 0]

(***************************************************************************)
(* C22: for every non-empty string a and every threshold,                  *)
(* fuzzy_match_name(a, a) returns (true, 100).                             *)
(***************************************************************************)
C22_SelfMatchIsPerfect ==
    (/\ match_result # NONE
     /\ match_args[1].search_term # <<>>
     /\ match_args[1].search_term = match_args[1].player_name) =>
        match_result[1] = [is_match |-> TRUE, score |-> 100]

\* "Ab" against "Ab" at the higher threshold, the library scoring nothing.
C22_Witness ==
    /\ match_result # NONE
    /\ match_args[1].search_term = NameAb
    /\ match_args[1].player_name = NameAb
    /\ match_args[1].threshold > SEARCH_THRESHOLD
    /\ match_args[1].partial = 0
    /\ match_args[1].token_set = 0
    /\ match_result[1] = [is_match |-> TRUE, score |-> 100]


(***************************************************************************)
(* The remote fetches of get_recent_activity (transactions.py 39-90) and   *)
(* of get_free_agents (players.py 226-259), one action per remote call.    *)
(***************************************************************************)

\* A Python value that may be an int or a str, kept apart by its type.
PyInt(n) == [type |-> "int", int |-> n, str |-> ""]
PyStr(str) == [type |-> "str", int |-> 0, str |-> str]

\* metadata.py 10-33.
POSITION_MAP ==
    [k \in 0..21 |->
        CASE k = 0 -> "C"
          [] k = 1 -> "1B"
          [] k = 2 -> "2B"
          [] k = 3 -> "3B"
          [] k = 4 -> "SS"
          [] k \in {5, 6, 7} -> "OF"
          [] k = 8 -> "DH"
          [] k = 9 -> "UTIL"
          [] k \in {10, 12, 14} -> "SP"
          [] k \in {11, 13, 15} -> "RP"
          [] k \in {16, 19, 20} -> "BN"
          [] k = 17 -> "DL"
          [] k = 18 -> "NA"
          [] k = 21 -> "IL"]

PositionNames == {POSITION_MAP[k] : k \in DOMAIN POSITION_MAP}

\* players.py 245: {v: k for k, v in POSITION_MAP.items() if v == position},
\* as the list of its (key, value) items.  The keys are the names v, and a
\* later k overwrites an earlier one under the same name.
position_name_to_id(position) ==
    LET ids == {k \in DOMAIN POSITION_MAP : POSITION_MAP[k] = position} IN
    IF ids = {}
      THEN <<>>
      ELSE <<[key |-> PyStr(position),
              value |-> PyInt(CHOOSE k \in ids : \A j \in ids : j <= k)]>>

\* players.py 247: list(position_name_to_id.keys())[0].
FirstKey(dict) == dict[1].key

\* players.py 235: min(limit, 100).
FA_SIZE_CAP == 100

\* players.py 235-251: the parameters of the first free-agent query.
fa_params(week, position, position_id, limit) ==
    [size |-> Min(limit, FA_SIZE_CAP),
     week |-> week,
     position_id |-> IF position_id # NONE
                       THEN Some(PyInt(position_id[1]))
                       ELSE IF position # NONE
                                 /\ position_name_to_id(position[1]) # <<>>
                              THEN Some(FirstKey(position_name_to_id(position[1])))
                              ELSE NONE,
     position |-> IF position_id = NONE /\ position # NONE
                       /\ position_name_to_id(position[1]) = <<>>
                    THEN position
                    ELSE NONE]

\* players.py 259: league.free_agents(size=limit).
fa_fallback_params(limit) ==
    [size |-> limit, week |-> NONE, position_id |-> NONE, position |-> NONE]

\* transactions.py 41: fetch_size.
FETCH_EXTRA == 50
FETCH_SIZE_CAP == 100
fetch_size(limit, off) == Min(limit + off + FETCH_EXTRA, FETCH_SIZE_CAP)

\* What league.recent_activity may answer: an exception, None, an empty
\* list, a list of at most NO_SIZE_ENOUGH activities, a longer list, or a
\* truthy object without len().
RecentOutcomes == {"raise", "none", "empty", "few", "many", "unsized"}
\* What league.free_agents may answer.
FreeAgentOutcomes == {"raise", "none", "list"}

Falsy(outcome) == outcome \in {"none", "empty"}

\* transactions.py 46-83: where the code goes after the unparameterized
\* call.  The len() in the log line at 47 raises on an unsized answer, and
\* the handler at 79 takes over.
AfterNoSize(outcome) ==
    CASE outcome \in {"raise", "unsized"} -> "fallback"
      [] Falsy(outcome) -> "retry_empty"
      [] outcome = "few" -> "more"
      [] outcome = "many" -> "process"

\* transactions.py 60-83: where the code goes after the sized call: in all
\* three places the handler around it logs and goes on to the processing.
AfterSized_retry(outcome) == IF outcome = "raise" THEN "fallback" ELSE "process"
AfterSized(outcome) == "process"

\* transactions.py 62-66, 70-75, 81-86: the answer the code goes on with.
\* The len() in the log line after the sized call raises on an unsized
\* answer, inside the handler's try.
ChosenAfterSized(from, outcome) ==
    IF from = "more"
      THEN IF outcome \in {"raise", "unsized", "none", "empty"}
             THEN "no_size"
             ELSE "sized"
      ELSE IF outcome \in {"raise", "unsized"} THEN "empty_list" ELSE "sized"

FetchLimits == {1, 50, 150}
FetchOffsets == {0, 60}
FetchPositions == {NONE} \cup {Some(n) : n \in PositionNames \cup {"XX"}}
FetchPositionIds == {NONE, Some(5)}
FetchWeeks == {NONE, Some(1)}

FetchInit ==
    /\ fetch_call \in
          {Some([op |-> "get_recent_activity", limit |-> l, offset |-> o]) :
              l \in FetchLimits, o \in FetchOffsets}
          \cup
          {Some([op |-> "get_free_agents", week |-> w, position |-> pos,
                 position_id |-> pid, limit |-> l]) :
              w \in FetchWeeks, pos \in FetchPositions,
              pid \in FetchPositionIds, l \in FetchLimits}
    /\ fpc = "start"
    /\ remote_log = <<>>
    /\ activities_src = "none"

LogCall(fn, params, outcome) ==
    Append(remote_log, [fn |-> fn, params |-> params, outcome |-> outcome])

\* transactions.py 27-46: up to and including league.recent_activity().
RecentNoSize ==
    /\ UNCHANGED notFetch
    /\ fpc = "start"
    /\ fetch_call[1].op = "get_recent_activity"
    /\ \E outcome \in RecentOutcomes :
          /\ remote_log' = LogCall("recent_activity", [size |-> NONE], outcome)
          /\ fpc' = AfterNoSize(outcome)
          /\ activities_src' = IF outcome = "many" THEN "no_size" ELSE "none"
    /\ UNCHANGED fetch_call

\* transactions.py 61, 70 or 82: league.recent_activity(size=fetch_size).
RecentSized ==
    /\ UNCHANGED notFetch
    /\ fpc \in {"fallback", "retry_empty", "more"}
    /\ fetch_call[1].op = "get_recent_activity"
    /\ \E outcome \in RecentOutcomes :
          /\ remote_log' =
                LogCall("recent_activity",
                        [size |-> Some(fetch_size(fetch_call[1].limit,
                                                  fetch_call[1].offset))],
                        outcome)
          /\ fpc' = AfterSized(outcome)
          /\ activities_src' = ChosenAfterSized(fpc, outcome)
    /\ UNCHANGED fetch_call

\* players.py 226-256: up to and including league.free_agents(**fa_params).
FreeAgentsQuery ==
    /\ UNCHANGED notFetch
    /\ fpc = "start"
    /\ fetch_call[1].op = "get_free_agents"
    /\ \E outcome \in FreeAgentOutcomes :
          /\ remote_log' =
                LogCall("free_agents",
                        fa_params(fetch_call[1].week, fetch_call[1].position,
                                  fetch_call[1].position_id, fetch_call[1].limit),
                        outcome)
          /\ fpc' = IF outcome = "raise" THEN "fa_fallback" ELSE "process"
          /\ activities_src' = IF outcome = "raise" THEN "none" ELSE "query"
    /\ UNCHANGED fetch_call

\* players.py 257-259: the size-only call in the handler.  When it raises
\* too, the outer handler (297-298) returns the error payload.
FreeAgentsFallback ==
    /\ UNCHANGED notFetch
    /\ fpc = "fa_fallback"
    /\ \E outcome \in FreeAgentOutcomes :
          /\ remote_log' = LogCall("free_agents",
                                   fa_fallback_params(fetch_call[1].limit), outcome)
          /\ fpc' = IF outcome = "raise" THEN "returned" ELSE "process"
          /\ activities_src' = IF outcome = "raise" THEN "error" ELSE "fallback"
    /\ UNCHANGED fetch_call

\* transactions.py 92-131, players.py 261-295: the answer is processed and
\* the call returns (no remote call in there).
FetchProcess ==
    /\ UNCHANGED notFetch
    /\ fpc = "process"
    /\ fpc' = "returned"
    /\ UNCHANGED <<fetch_call, remote_log, activities_src>>

FetchNext ==
    \/ RecentNoSize
    \/ RecentSized
    \/ FreeAgentsQuery
    \/ FreeAgentsFallback
    \/ FetchProcess

InitFetch ==
    /\ PagIdle /\ ClsIdle /\ FeedIdle /\ SearchIdle /\ ScanIdle /\ MatchIdle
    /\ FetchInit /\ LeagueIdle

SpecFetch == InitFetch /\ [][FetchNext]_vars

(***************************************************************************)
(* C23: one call of get_recent_activity issues at most two                 *)
(* recent-activity fetches, the unparameterized one first and at most one  *)
(* sized one; one call of get_free_agents issues at most two free-agent    *)
(* fetches, the second being the size-only fallback and issued only when   *)
(* the first raised.  Whatever the remote calls answer, there is no third. *)
(***************************************************************************)
C23_AtMostTwoFetches ==
    /\ Len(remote_log) <= 2
    /\ (fetch_call # NONE /\ fetch_call[1].op = "get_recent_activity") =>
          /\ \A i \in 1..Len(remote_log) :
                /\ remote_log[i].fn = "recent_activity"
                /\ (remote_log[i].params.size = NONE) <=> (i = 1)
    /\ (fetch_call # NONE /\ fetch_call[1].op = "get_free_agents") =>
          /\ \A i \in 1..Len(remote_log) : remote_log[i].fn = "free_agents"
          /\ Len(remote_log) = 2 =>
                /\ remote_log[1].outcome = "raise"
                /\ remote_log[2].params = fa_fallback_params(fetch_call[1].limit)

\* Both recent-activity fetches raised and the call has returned.
C23_Witness ==
    /\ fpc = "returned"
    /\ fetch_call[1].op = "get_recent_activity"
    /\ Len(remote_log) = 2
    /\ remote_log[1].outcome = "raise"
    /\ remote_log[2].outcome = "raise"
    /\ activities_src = "empty_list"

(***************************************************************************)
(* C29: when get_free_agents is called with a position name of the         *)
(* position table and no position_id, the position_id passed to the        *)
(* remote free-agent query is a slot id that the table maps to that name.  *)
(***************************************************************************)
C29_PositionIdIsSlotId ==
    (/\ fetch_call # NONE
     /\ fetch_call[1].op = "get_free_agents"
     /\ fetch_call[1].position_id = NONE
     /\ fetch_call[1].position # NONE
     /\ fetch_call[1].position[1] \in PositionNames
     /\ Len(remote_log) >= 1) =>
        /\ remote_log[1].params.position_id # NONE
        /\ remote_log[1].params.position_id[1].type = "int"
        /\ remote_log[1].params.position_id[1].int \in DOMAIN POSITION_MAP
        /\ POSITION_MAP[remote_log[1].params.position_id[1].int]
              = fetch_call[1].position[1]


\* Is player_name a substring, case-insensitively, of one of the names.
NamedIn(player_name, players) ==
    \E i \in 1..Len(players) : NameIn(player_name, players[i])

\* The players a record names: added, dropped and traded.
PlayersNamed(activity_dict) ==
    (IF "added_player" \in DOMAIN activity_dict
       THEN activity_dict.added_player ELSE <<>>)
    \o (IF "dropped_player" \in DOMAIN activity_dict
          THEN activity_dict.dropped_player ELSE <<>>)
    \o (IF "players_in" \in DOMAIN activity_dict
          THEN activity_dict.players_in ELSE <<>>)
    \o (IF "players_out" \in DOMAIN activity_dict
          THEN activity_dict.players_out ELSE <<>>)

(***************************************************************************)
(* C24: get_player_transaction_history returns exactly the records of the  *)
(* feed (the first HISTORY_LIMIT of get_recent_activity) in which           *)
(* player_name is a case-insensitive substring of the name of the added    *)
(* player, of the dropped player or of a player in players_in or           *)
(* players_out, whatever the kind of the record is.                        *)
(***************************************************************************)
C24_HistoryNamesThePlayer ==
    (/\ call # NONE
     /\ call[1].op = "get_player_transaction_history"
     /\ league_error = NONE) =>
        LET all_activities == get_recent_activity(HISTORY_LIMIT, NONE, 0) IN
        result = Select(all_activities,
                        {a \in Range(all_activities) :
                            NamedIn(call[1].player_name, PlayersNamed(a))})

(***************************************************************************)
(* C25: when get_waiver_claims falls back to the activity log, it returns  *)
(* one claim entry for every waiver activity whose source is WAIVERS, in   *)
(* order, also for an activity whose team is null; it never answers with   *)
(* an error payload because one activity has no team.                      *)
(***************************************************************************)
C25_ClaimPerWaiverActivity ==
    (/\ call # NONE
     /\ call[1].op = "get_waiver_claims"
     /\ league_error = NONE) =>
        LET waiver_activities == get_waiver_activity(call[1].limit)
            from_waivers ==
                Select(waiver_activities,
                       {a \in Range(waiver_activities) :
                           GetSource(a) = Some("WAIVERS")})
        IN  /\ ~HasError(result)
            /\ Len(result) = Len(from_waivers)
            /\ \A i \in 1..Len(result) :
                  /\ result[i].type = "WAIVER_ACTIVITY"
                  /\ result[i].player = from_waivers[i].added_player


\* The rostered matches among the matches collected.
RosteredMatches(matches) ==
    {k \in 1..Len(matches) : matches[k].status = "ROSTERED"}

(***************************************************************************)
(* C27: search_players returns at most max(RESULT_CAP, R) records, R being *)
(* the number of rostered players the roster scan matched; with fewer than *)
(* RESULT_CAP rostered matches there are never more than RESULT_CAP        *)
(* matches, and a free-agent match is only ever added while fewer than     *)
(* RESULT_CAP matches have been accumulated.                               *)
(***************************************************************************)
C27_AtMostCapOrRostered ==
    /\ [](found # NONE =>
            LET R == Cardinality(RosteredMatches(matching_players)) IN
            Len(found[1]) <= (IF R > RESULT_CAP THEN R ELSE RESULT_CAP))
    /\ [](Cardinality(RosteredMatches(matching_players)) < RESULT_CAP =>
            Len(matching_players) <= RESULT_CAP)
    /\ [][(/\ Len(matching_players') = Len(matching_players) + 1
           /\ matching_players'[Len(matching_players')].status = "FREE_AGENT")
          => Len(matching_players) < RESULT_CAP]_vars

\* One rostered match short of the cap, a pool in which every free agent
\* matches: exactly one free agent was added and the search returned
\* RESULT_CAP records.
C27_Witness ==
    /\ spc = "returned"
    /\ found # NONE
    /\ pool_kind = "all"
    /\ Cardinality(RosteredMatches(matching_players)) = RESULT_CAP - 1
    /\ Len(found[1]) = RESULT_CAP
    /\ Cardinality({i \in 1..Len(found[1]) :
                       found[1][i].status = "FREE_AGENT"}) = 1
    /\ yielded = 1

CookiePairs ==
    {[espn_s2 |-> <<>>, swid |-> <<"x">>],
     [espn_s2 |-> <<"x">>, swid |-> <<"x">>],
     [espn_s2 |-> <<"x", "_">>, swid |-> <<"x">>],
     [espn_s2 |-> <<"x">>, swid |-> <<"_", "x">>]}

\* datetime.datetime.now(), as far as get_league reads it.
Clock == {[year |-> 2025, month |-> 2], [year |-> 2025, month |-> 3]}

\* utils.py 89-97.
detect_year(year, now) ==
    IF year = NONE
      THEN IF now.month < 3 THEN now.year - 1 ELSE now.year
      ELSE year[1]

\* auth.py 29-31.
get_credentials(session_id) == credentials[session_id]

\* auth.py 19-22.
Stored(creds, session_id, espn_s2, swid) ==
    [creds EXCEPT ![session_id] = Some([espn_s2 |-> espn_s2, swid |-> swid])]

\* auth.py 36-37.
Cleared_keeps(creds, session_id) == creds
Cleared(creds, session_id) == [creds EXCEPT ![session_id] = NONE]

\* auth.py 16-27, called by authenticate (47-59).
store_credentials(session_id, espn_s2, swid) ==
    /\ UNCHANGED notLeague
    /\ credentials' = Stored(credentials, session_id, espn_s2, swid)
    /\ last_auth' = [last_auth EXCEPT ![session_id] = "authenticate"]
    /\ UNCHANGED <<leagues, calls>>

\* auth.py 33-42, called by logout (61-71).
clear_credentials(session_id) ==
    /\ UNCHANGED notLeague
    /\ credentials' = Cleared(credentials, session_id)
    /\ last_auth' = [last_auth EXCEPT ![session_id] = "logout"]
    /\ UNCHANGED <<leagues, calls>>

\* The vendor object baseball.League(...) builds; `by` stands for the
\* identity of the object: the call that built it.
League(league_id, year, espn_s2, swid, by) ==
    [league_id |-> league_id, year |-> year, espn_s2 |-> espn_s2,
     swid |-> swid, by |-> by]

\* utils.py 119: self.leagues[cache_key] = league.
CacheWrite_dropsOthers(cache, key, league) ==
    [k \in DOMAIN cache |-> IF k = key THEN Some(league) ELSE NONE]
CacheWrite(cache, key, league) == [cache EXCEPT ![key] = Some(league)]

\* A data-fetching tool (transactions.py 28-37 and its like) reads the
\* credentials of its session and enters get_league, which settles the
\* year and the cache key (utils.py 88-102).  Calls are numbered in the
\* order in which they start.
DataCall(c, session_id, league_id, year, now) ==
    /\ UNCHANGED notLeague
    /\ calls[c].pc = "idle"
    /\ \A b \in CallIds : b < c => calls[b].pc # "idle"
    /\ LET creds == get_credentials(session_id)
           espn_s2 == IF creds # NONE THEN Some(creds[1].espn_s2) ELSE NONE
           swid == IF creds # NONE THEN Some(creds[1].swid) ELSE NONE
           y == detect_year(year, now)
       IN  calls' = [calls EXCEPT ![c] =
                        [pc |-> "lookup",
                         session_id |-> session_id,
                         after_logout |-> last_auth[session_id] = "logout",
                         league_id |-> league_id,
                         year |-> y,
                         espn_s2 |-> espn_s2,
                         swid |-> swid,
                         cache_key |-> Some(cache_key(league_id, y,
                                              generate_auth_hash(espn_s2, swid))),
                         league |-> NONE]]
    /\ UNCHANGED <<credentials, last_auth, leagues>>

\* utils.py 104-106: the cached league is returned, if there is one.
CacheLookup(c) ==
    /\ UNCHANGED notLeague
    /\ calls[c].pc = "lookup"
    /\ LET key == calls[c].cache_key[1] IN
       IF leagues[key] # NONE
         THEN calls' = [calls EXCEPT ![c].pc = "returned",
                                     ![c].league = leagues[key]]
         ELSE calls' = [calls EXCEPT ![c].pc = "construct"]
    /\ UNCHANGED <<credentials, last_auth, leagues>>

\* utils.py 111-117 and 121-125: the vendor constructor returns a league
\* or raises, and get_league re-raises.
Construct(c) ==
    /\ UNCHANGED notLeague
    /\ calls[c].pc = "construct"
    /\ \E ok \in BOOLEAN :
          IF ok
            THEN calls' = [calls EXCEPT
                              ![c].pc = "store",
                              ![c].league = Some(League(calls[c].league_id,
                                                        calls[c].year,
                                                        calls[c].espn_s2,
                                                        calls[c].swid, c))]
            ELSE calls' = [calls EXCEPT ![c].pc = "raised"]
    /\ UNCHANGED <<credentials, last_auth, leagues>>

\* utils.py 119-120.
CacheStore(c) ==
    /\ UNCHANGED notLeague
    /\ calls[c].pc = "store"
    /\ leagues' = CacheWrite(leagues, calls[c].cache_key[1], calls[c].league[1])
    /\ calls' = [calls EXCEPT ![c].pc = "returned"]
    /\ UNCHANGED <<credentials, last_auth>>

LeagueNext ==
    \/ \E s \in Sessions, p \in CookiePairs :
          store_credentials(s, p.espn_s2, p.swid)
    \/ \E s \in Sessions : clear_credentials(s)
    \/ \E c \in CallIds, s \in Sessions, l \in LeagueIds,
          year \in {NONE, Some(2024)}, now \in Clock :
          DataCall(c, s, l, year, now)
    \/ \E c \in CallIds : CacheLookup(c)
    \/ \E c \in CallIds : Construct(c)
    \/ \E c \in CallIds : CacheStore(c)

InitLeague ==
    /\ PagIdle /\ ClsIdle /\ FeedIdle /\ SearchIdle /\ ScanIdle /\ MatchIdle
    /\ FetchIdle /\ LeagueIdle

SpecLeague == InitLeague /\ [][LeagueNext]_vars

\* The key a league object belongs under.
KeyOf(league) ==
    cache_key(league.league_id, league.year,
              generate_auth_hash(league.espn_s2, league.swid))

\* Call c performs its cache write in this step.
Writes(c) == calls[c].pc = "store" /\ calls'[c].pc = "returned"

(***************************************************************************)
(* C26: under any interleaving of get_league calls, a call only ever       *)
(* writes the cache entry of its own key (league_id, year, credential      *)
(* hash) and leaves every other entry as it was; calls racing on one key   *)
(* may each construct a league, each write replaces the entry of that key  *)
(* by the writer's league (the last write wins, and the key keeps exactly  *)
(* one entry, a league built for that key); a call whose construction      *)
(* fails writes nothing.                                                   *)
(***************************************************************************)
C26_CacheWritesOwnKeyOnly ==
    /\ [][\A k \in CacheKeys :
            leagues'[k] # leagues[k] =>
               \E c \in CallIds : /\ Writes(c)
                                  /\ calls[c].cache_key = Some(k)
                                  /\ leagues'[k] = calls[c].league]_vars
    /\ [][\A c \in CallIds :
            Writes(c) => leagues'[calls[c].cache_key[1]] = calls[c].league]_vars
    /\ [](\A k \in CacheKeys : leagues[k] # NONE => KeyOf(leagues[k][1]) = k)
    /\ [](\A c \in CallIds :
            calls[c].pc = "returned" =>
               /\ leagues[calls[c].cache_key[1]] # NONE
               /\ KeyOf(calls[c].league[1]) = calls[c].cache_key[1])
    /\ [][\A c \in CallIds :
            (calls[c].pc # "raised" /\ calls'[c].pc = "raised") =>
               leagues' = leagues]_vars
    /\ [](\A c \in CallIds :
            calls[c].pc = "raised" =>
               \A k \in CacheKeys : leagues[k] # NONE => leagues[k][1].by # c)

\* Two calls raced on one key and each built a league; the call that
\* started first wrote last and its league is the entry of the key, while
\* the other call returned the league it built itself.
C26_Witness ==
    /\ calls[1].pc = "returned"
    /\ calls[2].pc = "returned"
    /\ calls[1].cache_key = calls[2].cache_key
    /\ calls[1].league[1].by = 1
    /\ calls[2].league[1].by = 2
    /\ leagues[calls[1].cache_key[1]] = calls[1].league
    /\ Cardinality({k \in CacheKeys : leagues[k] # NONE}) = 1

(***************************************************************************)
(* C30: after logout(session) and until the session authenticates again,   *)
(* get_credentials(session) returns nothing, and every data-fetching call  *)
(* the session makes looks its league up under the key whose credential    *)
(* hash is "no_auth": the league it receives is not one cached under an    *)
(* authenticated key.  Storing or clearing the credentials of one session  *)
(* never changes those of another session.                                 *)
(***************************************************************************)
C30_LoggedOutMeansNoAuth ==
    /\ [](\A s \in Sessions :
            last_auth[s] = "logout" => get_credentials(s) = NONE)
    /\ [](\A c \in CallIds :
            (calls[c].pc # "idle" /\ calls[c].after_logout) =>
               /\ calls[c].cache_key[1][4] = "no_auth"
               /\ calls[c].league # NONE =>
                     \A k \in CacheKeys :
                        leagues[k] = calls[c].league => k[4] = "no_auth")
    /\ [][\A s \in Sessions :
            credentials'[s] # credentials[s] =>
               /\ last_auth'[s] = (IF credentials'[s] = NONE
                                     THEN "logout" ELSE "authenticate")
               /\ \A t \in Sessions \ {s} :
                     /\ credentials'[t] = credentials[t]
                     /\ last_auth'[t] = last_auth[t]]_vars

\* A session fetched a league while authenticated, logged out, and fetched
\* the same league again: the second call got a league of its own under
\* the "no_auth" key and not the one cached for the credentials; the other
\* session is still authenticated.
C30_Witness ==
    /\ calls[1].pc = "returned"
    /\ calls[2].pc = "returned"
    /\ calls[1].session_id = calls[2].session_id
    /\ ~calls[1].after_logout
    /\ calls[2].after_logout
    /\ calls[1].cache_key[1][4] # "no_auth"
    /\ calls[2].cache_key[1][4] = "no_auth"
    /\ calls[1].league_id = calls[2].league_id
    /\ calls[1].year = calls[2].year
    /\ calls[2].league # calls[1].league
    /\ leagues[calls[1].cache_key[1]] = calls[1].league
    /\ \E t \in Sessions : t # calls[1].session_id /\ credentials[t] # NONE

====
